---------------------------- MODULE Spec2Model ----------------------------
(***************************************************************************)
(* A model of optithor: the compound-database builder (remote lookups     *)
(* with retry and bounded concurrency, the attempt cache and its merge,   *)
(* the filter of names to fetch) and the runtime compound table           *)
(* (CompoundDb: load, resolve by identifier, fetch on miss).              *)
(*                                                                         *)
(* Python strings are sequences of one-character strings, so that strip,  *)
(* lower, isdigit and suffix removal are computed and not assumed.        *)
(* A cell of a pandas frame or of a record (dict) is a tagged value:      *)
(*   absent (the key/column does not exist), none (Python None),          *)
(*   nan (float NaN), str, int, float (an integral float, printed "v.0"). *)
(***************************************************************************)
EXTENDS Integers, Sequences, FiniteSets, TLC

(***************************************************************************)
(* Python strings                                                          *)
(***************************************************************************)
Str == Seq({"a", "A", "b", " ", "0", "1", "2", "7", "8", "9", ".", "n", "N", "o", "e",
           "H", "O"})

Digits == {"0", "1", "2", "7", "8", "9"}

LowerChar(c) ==
    CASE c = "A" -> "a" [] c = "N" -> "n" [] c = "H" -> "h" [] c = "O" -> "o"
      [] OTHER -> c

\* str.lower()
Lower(s) == [i \in 1..Len(s) |-> LowerChar(s[i])]

RECURSIVE LStrip(_)
LStrip(s) == IF s # <<>> /\ Head(s) = " " THEN LStrip(Tail(s)) ELSE s

RECURSIVE RStrip(_)
RStrip(s) == IF s # <<>> /\ s[Len(s)] = " " THEN RStrip(SubSeq(s, 1, Len(s) - 1)) ELSE s

\* str.strip()
Strip(s) == RStrip(LStrip(s))

\* str.isdigit(): non-empty and every character a digit
IsDigit(s) == s # <<>> /\ \A i \in 1..Len(s) : s[i] \in Digits

EndsWith(s, suf) ==
    Len(s) >= Len(suf) /\ SubSeq(s, Len(s) - Len(suf) + 1, Len(s)) = suf

\* str.removesuffix(suf), and the regex replacement of a trailing suffix
RemoveSuffix(s, suf) ==
    IF suf # <<>> /\ EndsWith(s, suf) THEN SubSeq(s, 1, Len(s) - Len(suf)) ELSE s

RECURSIVE ReplaceAll(_, _)
\* str.replace(".0", ""): every non-overlapping occurrence, left to right
ReplaceAll(s, pat) ==
    IF Len(s) < Len(pat) THEN s
    ELSE IF SubSeq(s, 1, Len(pat)) = pat
         THEN ReplaceAll(SubSeq(s, Len(pat) + 1, Len(s)), pat)
         ELSE <<Head(s)>> \o ReplaceAll(Tail(s), pat)

DotZero == <<".", "0">>
StrNone == <<"N", "o", "n", "e">>
StrNan == <<"n", "a", "n">>

RECURSIVE DropLeadingZeros(_)
\* str(int(s)) for a digit string s
DropLeadingZeros(s) ==
    IF Len(s) > 1 /\ Head(s) = "0" THEN DropLeadingZeros(Tail(s)) ELSE s

(***************************************************************************)
(* Cells                                                                   *)
(***************************************************************************)
Absent == [k |-> "absent", v |-> <<>>]
None == [k |-> "none", v |-> <<>>]
NaN == [k |-> "nan", v |-> <<>>]
S(v) == [k |-> "str", v |-> v]
I(v) == [k |-> "int", v |-> v]
F(v) == [k |-> "float", v |-> v]

\* str(x) of a cell that is there
PyStr(c) ==
    CASE c.k = "none" -> StrNone
      [] c.k = "nan" -> StrNan
      [] c.k = "float" -> c.v \o DotZero
      [] OTHER -> c.v

\* dict.get(key, default) and Series.get(key, default)
Get(c, default) == IF c.k = "absent" THEN default ELSE c

\* Python truthiness of a cell (None, "" and NaN aside: NaN is truthy)
Truthy(c) ==
    CASE c.k \in {"absent", "none"} -> FALSE
      [] c.k = "str" -> c.v # <<>>
      [] c.k = "int" -> c.v # <<"0">>
      [] OTHER -> TRUE

\* a or b
PyOr(a, b) == IF Truthy(a) THEN a ELSE b

Columns == {"qn", "status", "cid", "name", "formula", "mw", "smiles"}


(***************************************************************************)
(* Bounds and program constants                                            *)
(***************************************************************************)
\* names submitted to one batch fetch
MaxNames == 2
\* PubchemConfig.max_retries (8 by default, 5 in main): kept small
MaxRetries == 2
\* PubchemConfig.max_concurrent_requests (2 by default): kept small
MaxConcurrentRequests == 1
\* PubchemConfig.initial_backoff_seconds
InitialBackoffSeconds == 10
\* the ceiling of min(backoff * 2, 300)
BackoffCeiling == 300

VARIABLES
    \* -- one remote call (_get_json_with_retries)
    rc,         \* the call: where it is, requests issued, backoff, sleeps
    rcLog,      \* the responses the call has received, in order
    \* -- one batch fetch (fetch_pubchem_raw_async)
    names,      \* the submitted names
    task,       \* one runner(n) per name: where it is and what it holds
    sem,        \* asyncio.Semaphore: free permits
    doneQ,      \* runners in completion order (what as_completed yields)
    results,    \* the results list
    batch,      \* "idle" | "running" | "returned" | "raised"
    \* -- a function applied to arguments (merge_cache, filter_names_to_fetch)
    arg,        \* the arguments
    out,        \* what it returned and wrote, once applied
    \* -- the builder pipeline (build_compound_db.main), run after run
    cacheFile,  \* tmp_03_pubchem_calls_cache.json
    parquet,    \* output/compound_db.parquet
    run,        \* the run in progress and the runs completed
    \* -- optithor.CompoundDb: the table on disk and one resolve call
    store,      \* the cached table file and the packaged one
    resolve,    \* the call of get_compounds_by_cids(_async) in progress
    \* -- one file of the program, a process writing it, a process reading it
    io,         \* the file on disk, the write in progress, what was read
    \* -- one call of optimize_medium
    opt         \* where the call is, what it holds, what it returned

callVars == <<rc, rcLog>>
fetchVars == <<names, task, sem, doneQ, results, batch>>
funVars == <<arg, out>>
pipeVars == <<cacheFile, parquet, run>>
dbVars == <<store, resolve>>
ioVars == <<io>>
optVars == <<opt>>
vars == <<callVars, fetchVars, funVars, pipeVars, dbVars, ioVars, optVars>>

\* what the actions of one component leave alone
notCall == <<fetchVars, funVars, pipeVars, dbVars, ioVars, optVars>>
notFetch == <<callVars, funVars, pipeVars, dbVars, ioVars, optVars>>
notFun == <<callVars, fetchVars, pipeVars, dbVars, ioVars, optVars>>
notPipe == <<callVars, fetchVars, funVars, dbVars, ioVars, optVars>>
notDb == <<callVars, fetchVars, funVars, pipeVars, ioVars, optVars>>
notIo == <<callVars, fetchVars, funVars, pipeVars, dbVars, optVars>>
\* optimize_medium calls the repository: it leaves the rest alone
notOpt == <<callVars, fetchVars, funVars, pipeVars, ioVars>>

(***************************************************************************)
(* Remote responses (aiohttp) and JSON bodies (PubChem PUG REST)           *)
(***************************************************************************)
\* One property dict of PropertyTable.Properties; a missing key is Absent.
PropsFull ==
    [CID |-> I(<<"7">>), Title |-> S(<<"a">>), MolecularFormula |-> S(<<"b">>),
     MolecularWeight |-> S(<<"1", "8">>), CanonicalSMILES |-> S(<<"o">>)]
PropsNoSmiles ==
    [CID |-> I(<<"7">>), Title |-> S(<<"a">>), MolecularFormula |-> S(<<"b">>),
     MolecularWeight |-> S(<<"1", "8">>), CanonicalSMILES |-> Absent]
PropsBare ==
    [CID |-> Absent, Title |-> Absent, MolecularFormula |-> Absent,
     MolecularWeight |-> Absent, CanonicalSMILES |-> Absent]

\* What response.json() can return: obj (a JSON object), truthy (bool(x)),
\* cids (IdentifierList.CID) and props (PropertyTable.Properties).
BodyFalsy == [obj |-> FALSE, truthy |-> FALSE, cids |-> <<>>, props |-> <<>>]
BodyNonObject == [obj |-> FALSE, truthy |-> TRUE, cids |-> <<>>, props |-> <<>>]
BodyFault == [obj |-> TRUE, truthy |-> TRUE, cids |-> <<>>, props |-> <<>>]
BodyCids == [obj |-> TRUE, truthy |-> TRUE, cids |-> <<I(<<"7">>)>>, props |-> <<>>]
BodyProps(p) == [obj |-> TRUE, truthy |-> TRUE, cids |-> <<>>, props |-> <<p>>]

Bodies ==
    {BodyFalsy, BodyNonObject, BodyFault, BodyCids,
     BodyProps(PropsFull), BodyProps(PropsNoSmiles), BodyProps(PropsBare)}

RetryStatuses == {429, 503}
OtherStatus == 404

\* A response to one session.get: the status, and for a 200 what
\* response.json() does: "json" (returns a body), "badjson" (the body does
\* not decode: json.JSONDecodeError, a ValueError), "badctype" (not a JSON
\* content type: aiohttp.ContentTypeError, a ClientError). "error" is a
\* transport error or timeout raised by the request itself.
Responses ==
    {[status |-> 200, kind |-> "json", body |-> b] : b \in Bodies}
    \cup {[status |-> 200, kind |-> k, body |-> BodyFalsy] : k \in {"badjson", "badctype"}}
    \cup {[status |-> s, kind |-> "status", body |-> BodyFalsy] : s \in RetryStatuses \cup {OtherStatus}}
    \cup {[status |-> 0, kind |-> "error", body |-> BodyFalsy]}

NoResponse == [status |-> 0, kind |-> "none"]

\* What one loop iteration of _get_json_with_retries does with a response:
\* "return" the body, "none" (return None), "retry" (sleep, double the
\* backoff, next iteration) or "raise" (the exception leaves the function).
RetryDecision(r) ==
    CASE r.status = 200 /\ r.kind = "json" -> "return"
      [] r.status = 200 /\ r.kind = "badctype" -> "retry"
      [] r.status = 200 /\ r.kind = "badjson" -> "raise"
      [] r.kind = "status" /\ r.status \in RetryStatuses -> "retry"
      [] r.kind = "error" -> "retry"
      [] OTHER -> "none"

\* backoff = min(backoff * 2, 300)
NextBackoff(b) == IF b * 2 < BackoffCeiling THEN b * 2 ELSE BackoffCeiling

(***************************************************************************)
(* _get_json_with_retries as a state machine                               *)
(***************************************************************************)
\* A remote call under a PubchemConfig cfg (max_retries,
\* initial_backoff_seconds).
\*   pc: "request" (about to issue the next session.get) | "sleep" (in
\*       asyncio.sleep(backoff)) | "body" (returned response.json()) |
\*       "none" (returned None) | "raised" (an exception left the call)
\*   attempt: the session.get requests issued so far
\*   initial: config.initial_backoff_seconds
\*   sleeps: the sleeps so far, in seconds
\*   body: what was returned (BodyFalsy also stands for None)
NewCall(cfg) ==
    [pc |-> IF cfg.max_retries > 0 THEN "request" ELSE "none",
     max |-> cfg.max_retries, attempt |-> 0,
     initial |-> cfg.initial_backoff_seconds,
     backoff |-> cfg.initial_backoff_seconds, sleeps |-> <<>>, body |-> BodyFalsy]

\* One loop iteration: session.get answered by r.
OnResponse(c, r) ==
    LET c1 == [c EXCEPT !.attempt = @ + 1]
        d == RetryDecision(r)
    IN  CASE d = "return" -> [c1 EXCEPT !.pc = "body", !.body = r.body]
          [] d = "none" -> [c1 EXCEPT !.pc = "none"]
          [] d = "raise" -> [c1 EXCEPT !.pc = "raised"]
          [] OTHER -> [c1 EXCEPT !.pc = "sleep", !.sleeps = Append(@, c.backoff)]

\* asyncio.sleep(backoff) ends; backoff = min(backoff * 2, 300); the loop
\* goes on, or is exhausted and the call returns None.
OnWake(c) ==
    [c EXCEPT !.backoff = NextBackoff(@),
              !.pc = IF c.attempt < c.max THEN "request" ELSE "none"]

CallOver(c) == c.pc \in {"body", "none", "raised"}

(***************************************************************************)
(* _fetch_record_for_name                                                  *)
(***************************************************************************)
NoRec ==
    [qn |-> Absent, status |-> Absent, cid |-> Absent, name |-> Absent,
     formula |-> Absent, mw |-> Absent, smiles |-> Absent]

SkippedRec == [NoRec EXCEPT !.qn = S(<<>>), !.status = S(<<"skipped-empty">>)]

FailedRec(q, st, cid) ==
    [NoRec EXCEPT !.qn = S(q), !.status = S(<<st>>), !.cid = cid]

OkRec(q, cid, p) ==
    [qn |-> S(q), status |-> S(<<"ok">>),
     cid |-> PyOr(cid, Get(p.CID, None)),
     name |-> Get(p.Title, None),
     formula |-> Get(p.MolecularFormula, None),
     mw |-> Get(p.MolecularWeight, None),
     smiles |-> Get(p.CanonicalSMILES, None)]

\* cid = str(cid_list[0]) if cid_list else None, None when cids_json is falsy
CidFromBody(b) ==
    IF b.truthy /\ b.cids # <<>> THEN S(PyStr(b.cids[1])) ELSE None

\* .get on a truthy body that is no JSON object raises AttributeError
BodyRaises(b) == b.truthy /\ ~b.obj

\* The record built from the properties body (None: the call returned None)
RecordFromProps(q, cid, b) ==
    IF ~b.truthy THEN FailedRec(q, "failed-no-props", cid)
    ELSE IF b.props = <<>> THEN FailedRec(q, "failed-empty-props", cid)
    ELSE OkRec(q, cid, b.props[1])

(***************************************************************************)
(* fetch_pubchem_raw_async: one runner per name under a semaphore          *)
(***************************************************************************)
\* The names a batch may be given: one to trim, one blank.
BatchNames == {<<" ", "a", " ">>, <<" ">>}

BatchConfig ==
    [max_retries |-> MaxRetries, initial_backoff_seconds |-> InitialBackoffSeconds]

\* A runner.
\*   pc: "queued" (waiting for the semaphore) | "cids" | "props" (in that
\*       remote call of _fetch_record_for_name) | "done" (returned rec) |
\*       "raised" (an exception left the runner)
\*   call: the remote call in progress; cid: the identifier resolved;
\*   rec: the record returned; exc: the exception raised
Idle == [pc |-> "idle"]
NewTask == [pc |-> "queued", call |-> Idle, cid |-> None, rec |-> NoRec, exc |-> ""]

Tasks == DOMAIN task

InFlight == {i \in Tasks : task[i].pc \in {"cids", "props"}}

\* The runner ends, with a record or an exception; its frame is gone.
Returned(rec) == [pc |-> "done", call |-> Idle, cid |-> None, rec |-> rec, exc |-> ""]
Raised(exc) == [pc |-> "raised", call |-> Idle, cid |-> None, rec |-> NoRec, exc |-> exc]

\* The runner i, its remote call now in state c: the call goes on, or it
\* is over and _fetch_record_for_name goes on from its result.
Advance(i, c) ==
    LET t == task[i]
        q == Strip(names[i])
    IN  IF ~CallOver(c) THEN [t EXCEPT !.call = c]
        ELSE IF c.pc = "raised" THEN Raised("json.JSONDecodeError")
        ELSE IF BodyRaises(c.body) THEN Raised("AttributeError")
        ELSE IF t.pc = "cids"
        THEN [t EXCEPT !.pc = "props", !.call = NewCall(BatchConfig),
                       !.cid = CidFromBody(c.body)]
        ELSE Returned(RecordFromProps(q, t.cid, c.body))

\* The step of runner i to t: an ended runner leaves the `async with sem`
\* block (the permit is released) and its future completes.
Step(i, t) ==
    /\ task' = [task EXCEPT ![i] = t]
    /\ IF t.pc \in {"done", "raised"}
       THEN sem' = sem + 1 /\ doneQ' = Append(doneQ, i)
       ELSE UNCHANGED <<sem, doneQ>>
    /\ UNCHANGED <<names, results, batch>>
    /\ UNCHANGED notFetch

\* async with sem, without the semaphore
CanAcquire_NoSemaphore(i) == \A j \in Tasks : j < i => task[j].pc # "queued"

\* async with sem: a permit is free; waiters are served in task order
CanAcquire(i) == sem > 0 /\ \A j \in Tasks : j < i => task[j].pc # "queued"

\* runner(n) acquires the semaphore and enters _fetch_record_for_name; a
\* blank name returns its record without awaiting anything, and the permit
\* is back at once.
Acquire(i) ==
    /\ batch = "running"
    /\ task[i].pc = "queued"
    /\ CanAcquire(i)
    /\ IF Strip(names[i]) = <<>>
       THEN /\ task' = [task EXCEPT ![i] = Returned(SkippedRec)]
            /\ doneQ' = Append(doneQ, i)
            /\ sem' = sem
       ELSE /\ task' = [task EXCEPT ![i] =
                    [@ EXCEPT !.pc = "cids", !.call = NewCall(BatchConfig)]]
            /\ sem' = sem - 1
            /\ doneQ' = doneQ
    /\ UNCHANGED <<names, results, batch>>
    /\ UNCHANGED notFetch

\* One session.get of runner i's remote call, answered by r.
HttpAttempt(i, r) ==
    /\ batch = "running"
    /\ i \in InFlight
    /\ task[i].call.pc = "request"
    /\ Step(i, Advance(i, OnResponse(task[i].call, r)))

\* The backoff sleep of runner i's remote call ends.
Wake(i) ==
    /\ batch = "running"
    /\ i \in InFlight
    /\ task[i].call.pc = "sleep"
    /\ Step(i, Advance(i, OnWake(task[i].call)))

\* for fut in asyncio.as_completed(tasks): rec = await fut; results.append(rec)
\* An exception of the runner is raised by the await and leaves the batch:
\* no frame is returned.
Collect ==
    /\ batch = "running"
    /\ doneQ # <<>>
    /\ LET i == Head(doneQ)
       IN  IF task[i].pc = "raised"
           THEN /\ batch' = "raised"
                /\ results' = <<>>
           ELSE /\ batch' = batch
                /\ results' = Append(results, task[i].rec)
    /\ doneQ' = Tail(doneQ)
    /\ UNCHANGED <<names, task, sem>>
    /\ UNCHANGED notFetch

\* return pd.DataFrame(results)
BatchReturn ==
    /\ batch = "running"
    /\ Len(results) = Len(names)
    /\ batch' = "returned"
    /\ UNCHANGED <<names, task, sem, doneQ, results>>
    /\ UNCHANGED notFetch

FetchIdle ==
    /\ names = <<>>
    /\ task = <<>>
    /\ sem = MaxConcurrentRequests
    /\ doneQ = <<>>
    /\ results = <<>>
    /\ batch = "idle"

FetchInit ==
    /\ names \in UNION {[1..n -> BatchNames] : n \in 0..MaxNames}
    /\ task = [i \in 1..Len(names) |-> NewTask]
    /\ sem = MaxConcurrentRequests
    /\ doneQ = <<>>
    /\ results = <<>>
    /\ batch = "running"

FetchNext ==
    \/ \E i \in Tasks : Acquire(i)
    \/ \E i \in Tasks : \E r \in Responses : HttpAttempt(i, r)
    \/ \E i \in Tasks : Wake(i)
    \/ Collect
    \/ BatchReturn

(***************************************************************************)
(* One remote call on its own                                              *)
(***************************************************************************)
\* The configurations a call is checked under.
CallConfigs ==
    [max_retries : 1..MaxRetries,
     initial_backoff_seconds : {InitialBackoffSeconds, 100, 200, 400}]

CallIdle ==
    /\ rc = NewCall(BatchConfig)
    /\ rcLog = <<>>

CallInit ==
    /\ \E cfg \in CallConfigs : rc = NewCall(cfg)
    /\ rcLog = <<>>

CallAttempt(r) ==
    /\ rc.pc = "request"
    /\ rc' = OnResponse(rc, r)
    /\ rcLog' = Append(rcLog, [status |-> r.status, kind |-> r.kind])
    /\ UNCHANGED notCall

CallWake ==
    /\ rc.pc = "sleep"
    /\ rc' = OnWake(rc)
    /\ rcLog' = rcLog
    /\ UNCHANGED notCall

CallNext ==
    \/ \E r \in Responses : CallAttempt(r)
    \/ CallWake

(***************************************************************************)
(* pandas frames and the JSON cache file                                   *)
(*                                                                         *)
(* A frame is the sequence of its rows; a row has a cell for each of the   *)
(* seven columns, Absent in every row when the frame lacks the column.     *)
(* A status is one token ("ok", "failed-no-props", ...): strip and lower   *)
(* leave it as it is.                                                      *)
(***************************************************************************)
EmptyFrame == <<>>

\* df.empty
FrameEmpty(df) == df = <<>> \/ \A c \in Columns : \A i \in 1..Len(df) : df[i][c] = Absent

\* "col" in df.columns
HasCol(df, c) == \E i \in 1..Len(df) : df[i][c] # Absent

IsNull(c) == c.k \in {"none", "nan"}
IsNumber(c) == c.k \in {"int", "float"}

\* numpy's upcast of a numeric column: an int64 column that has to hold
\* NaN or a float becomes float64
Coerce(cells) ==
    IF /\ \A i \in 1..Len(cells) : cells[i].k \in {"int", "float", "nan"}
       /\ \E i \in 1..Len(cells) : cells[i].k \in {"float", "nan"}
    THEN [i \in 1..Len(cells) |-> IF cells[i].k = "int" THEN F(cells[i].v) ELSE cells[i]]
    ELSE cells

\* One column of pd.DataFrame(list of dicts): a key no dict has is no
\* column; a missing key is NaN; in a column whose values are numbers,
\* None is NaN too.
FrameColumn(cells) ==
    IF \A i \in 1..Len(cells) : cells[i] = Absent THEN cells
    ELSE LET filled == [i \in 1..Len(cells) |-> IF cells[i] = Absent THEN NaN ELSE cells[i]]
             numeric == /\ \E i \in 1..Len(cells) : IsNumber(filled[i])
                        /\ \A i \in 1..Len(cells) : IsNumber(filled[i]) \/ IsNull(filled[i])
         IN  IF numeric
             THEN Coerce([i \in 1..Len(cells) |-> IF IsNull(filled[i]) THEN NaN ELSE filled[i]])
             ELSE filled

\* A list, its items computed once
AsList(f) == f \o <<>>

ColumnOf(rows, c) == [i \in 1..Len(rows) |-> rows[i][c]]

\* One column of pd.concat([a, b], ignore_index=True): a column of either
\* frame is a column of the result, NaN where the other frame lacks it.
ConcatColumn(cells) ==
    IF \A i \in 1..Len(cells) : cells[i] = Absent THEN cells
    ELSE Coerce([i \in 1..Len(cells) |-> IF cells[i] = Absent THEN NaN ELSE cells[i]])

\* float(s) succeeds (on the strings of this model: digits, blanks around)
NumericLike(c) == IsNumber(c) \/ (c.k = "str" /\ IsDigit(Strip(c.v)))

\* One column of pd.read_json(path) (dtype inference is on by default): a
\* column that casts to float64 becomes numeric, "007" becomes 7, null
\* becomes NaN; it becomes int64 when no value is lost. Any other column
\* keeps its strings, null being None.
ReadJsonColumn(cells) ==
    IF \A i \in 1..Len(cells) : cells[i] = Absent THEN cells
    ELSE IF \A i \in 1..Len(cells) : NumericLike(cells[i]) \/ IsNull(cells[i])
    THEN Coerce([i \in 1..Len(cells) |->
            IF IsNull(cells[i]) THEN NaN
            ELSE IF cells[i].k = "str" THEN I(DropLeadingZeros(Strip(cells[i].v)))
            ELSE cells[i]])
    ELSE cells

\* One column of a frame made by pd.DataFrame(records) ("records"), by
\* pd.concat ("concat") or by pd.read_json ("read_json")
ColumnBy(how, cells) ==
    AsList(CASE how = "records" -> FrameColumn(cells)
             [] how = "concat" -> ConcatColumn(cells)
             [] OTHER -> ReadJsonColumn(cells))

\* The columns of a frame, each made from the cells of the rows
PerColumn(how, rows) ==
    [qn |-> ColumnBy(how, ColumnOf(rows, "qn")),
     status |-> ColumnBy(how, ColumnOf(rows, "status")),
     cid |-> ColumnBy(how, ColumnOf(rows, "cid")),
     name |-> ColumnBy(how, ColumnOf(rows, "name")),
     formula |-> ColumnBy(how, ColumnOf(rows, "formula")),
     mw |-> ColumnBy(how, ColumnOf(rows, "mw")),
     smiles |-> ColumnBy(how, ColumnOf(rows, "smiles"))]

\* The frame of n rows that has these columns
FromColumns(n, cols) ==
    AsList([i \in 1..n |->
        [qn |-> cols.qn[i], status |-> cols.status[i], cid |-> cols.cid[i],
         name |-> cols.name[i], formula |-> cols.formula[i], mw |-> cols.mw[i],
         smiles |-> cols.smiles[i]]])

\* pd.DataFrame(records)
MakeFrame(recs) == FromColumns(Len(recs), PerColumn("records", recs))

\* pd.concat([a, b], ignore_index=True)
Concat(a, b) == FromColumns(Len(a) + Len(b), PerColumn("concat", a \o b))

\* df.where(pd.notna(df), None).to_dict(orient="records"), as JSON: NaN is
\* written as null; a column the frame lacks is no key.
ToJson(df) ==
    AsList([i \in 1..Len(df) |->
        [c \in Columns |-> IF df[i][c].k = "nan" THEN None ELSE df[i][c]]])

\* pd.read_json(cache_path)
ReadJson(file) == FromColumns(Len(file), PerColumn("read_json", file))

\* The cache file: none, or the JSON list of records
NoFile == [exists |-> FALSE, recs |-> <<>>]
File(recs) == [exists |-> TRUE, recs |-> recs]

(***************************************************************************)
(* pubchem_cache                                                           *)
(***************************************************************************)
\* _norm_cid, as the truth value the score needs: a non-empty string
NormCid(c) ==
    IF c.k \in {"absent", "none"} THEN <<>>
    ELSE LET s == Strip(PyStr(c))
             u == IF EndsWith(s, DotZero) THEN ReplaceAll(s, DotZero) ELSE s
         IN  IF Lower(u) = Lower(StrNone) THEN <<>> ELSE u

\* _not_empty
NotEmpty(c) ==
    IF c.k \in {"absent", "none"} THEN FALSE
    ELSE Strip(PyStr(c)) # <<>> /\ Lower(Strip(PyStr(c))) # StrNan

BoolInt(b, n) == IF b THEN n ELSE 0

\* _score_row
ScoreRow(row) ==
    BoolInt(Lower(Strip(PyStr(Get(row.status, S(<<>>))))) = <<"ok">>, 10000)
    + BoolInt(NormCid(row.cid) # <<>>, 2000)
    + BoolInt(NotEmpty(row.name), 400)
    + BoolInt(NotEmpty(row.formula), 400)
    + BoolInt(NotEmpty(row.mw), 400)
    + BoolInt(NotEmpty(row.smiles), 50)

\* code point order of the characters that occur
CharOrd(c) ==
    CASE c = " " -> 32 [] c = "." -> 46 [] c = "0" -> 48 [] c = "1" -> 49
      [] c = "2" -> 50 [] c = "7" -> 55 [] c = "8" -> 56 [] c = "9" -> 57
      [] c = "A" -> 65 [] c = "H" -> 72 [] c = "N" -> 78 [] c = "O" -> 79
      [] c = "a" -> 97 [] c = "b" -> 98 [] c = "e" -> 101
      [] c = "n" -> 110 [] c = "o" -> 111 [] OTHER -> 0

RECURSIVE StrLess(_, _)
\* s < t for Python strings
StrLess(s, t) ==
    IF t = <<>> THEN FALSE
    ELSE IF s = <<>> THEN TRUE
    ELSE IF Head(s) = Head(t) THEN StrLess(Tail(s), Tail(t))
    ELSE CharOrd(Head(s)) < CharOrd(Head(t))

RECURSIVE SortStrings(_)
\* the strings of a set in ascending order
SortStrings(ss) ==
    IF ss = {} THEN <<>>
    ELSE LET m == CHOOSE x \in ss : \A y \in ss \ {x} : StrLess(x, y)
         IN  <<m>> \o SortStrings(ss \ {m})

\* df["Query Name"].astype(str).str.strip()
QueryName(row) == Strip(PyStr(row.qn))

\* _qkey
QKey(row) == Lower(QueryName(row))

\* load_cache: (df_cache, attempted_query_lower_set)
LoadCache(file) ==
    IF ~file.exists THEN [df |-> EmptyFrame, attempted |-> {}]
    ELSE LET df == ReadJson(file.recs)
         IN  IF FrameEmpty(df) \/ ~HasCol(df, "qn") THEN [df |-> df, attempted |-> {}]
             ELSE [df |-> df,
                   attempted |-> {QKey(df[i]) : i \in {j \in 1..Len(df) : ~IsNull(df[j].qn)}}]

\* save_cache
SaveCache(df) == ToJson(df)

\* df_all before the sort: the frames put together, Query Name stripped
MergeInput(cached, new) ==
    LET all == IF FrameEmpty(cached) THEN new
               ELSE IF FrameEmpty(new) THEN cached
               ELSE Concat(cached, new)
    IN  IF FrameEmpty(all) \/ ~HasCol(all, "qn") THEN all
        ELSE AsList([i \in 1..Len(all) |-> [all[i] EXCEPT !.qn = S(QueryName(all[i]))]])

\* What drop_duplicates keeps when the scores sort in ascending order
KeptIndex_LowestScore(qkey, score, key) ==
    CHOOSE i \in 1..Len(qkey) :
        /\ qkey[i] = key
        /\ \A j \in 1..Len(qkey) : qkey[j] = key =>
              \/ score[i] < score[j]
              \/ score[j] = score[i] /\ j <= i

\* The row drop_duplicates keeps for a key after sort_values by
\* ["_qkey", "_score", "_idx"], ascending [True, False, False]: the highest
\* score, and among equal scores the highest _idx.
KeptIndex(qkey, score, key) ==
    CHOOSE i \in 1..Len(qkey) :
        /\ qkey[i] = key
        /\ \A j \in 1..Len(qkey) : qkey[j] = key =>
              \/ score[j] < score[i]
              \/ score[j] = score[i] /\ j <= i

\* What merge_cache does without drop_duplicates
Dedupe_KeepAll(all) == all

\* sort_values, drop_duplicates(subset=["_qkey"], keep="first"), reset_index
Dedupe(all) ==
    LET qkey == AsList([i \in 1..Len(all) |-> QKey(all[i])])
        score == AsList([i \in 1..Len(all) |-> ScoreRow(all[i])])
        keys == SortStrings({qkey[i] : i \in 1..Len(all)})
    IN  AsList([k \in 1..Len(keys) |-> all[KeptIndex(qkey, score, keys[k])]])

\* merge_cache: the frame returned and the file written
MergeCache(cached, new) ==
    LET all == MergeInput(cached, new)
        merged == IF FrameEmpty(all) \/ ~HasCol(all, "qn") THEN all ELSE Dedupe(all)
    IN  [df |-> merged, file |-> File(SaveCache(merged))]

(***************************************************************************)
(* merge_cache applied to a cache file and new outcomes                    *)
(***************************************************************************)
\* rows of a cache file and of a batch
MaxRows == 2

\* Records as _fetch_record_for_name returns them
MergeRecords ==
    {FailedRec(<<"a">>, "failed-no-props", None),
     FailedRec(<<"A">>, "failed-empty-props", None),
     OkRec(<<"A">>, None, PropsBare),
     OkRec(<<"a">>, S(<<"7">>), PropsFull),
     FailedRec(<<"0", "0">>, "failed-no-props", None)}

RecordLists == UNION {[1..n -> MergeRecords] : n \in 0..MaxRows}

FunIdle ==
    /\ arg = [fn |-> "none"]
    /\ out = [stage |-> 0]

\* The cache file holds what a frame of records was saved as, or is not
\* there; the new outcomes are the frame of a batch.
CacheFiles == {NoFile} \cup {File(SaveCache(MakeFrame(old))) : old \in RecordLists}

MergeInit ==
    /\ \E file \in CacheFiles, new \in RecordLists :
          arg = [fn |-> "merge_cache", file |-> file, new |-> MakeFrame(new)]
    /\ out = [stage |-> 0]

\* df_cached, _ = load_cache(path); merge_cache(df_cached, df_new, path)
MergeOnce ==
    /\ arg.fn = "merge_cache"
    /\ out.stage = 0
    /\ LET cached == LoadCache(arg.file).df
           r == MergeCache(cached, arg.new)
       IN  out' = [stage |-> 1, all |-> MergeInput(cached, arg.new),
                   df |-> r.df, file |-> r.file,
                   prevDf |-> cached, prevFile |-> arg.file]
    /\ UNCHANGED arg
    /\ UNCHANGED notFun

\* merge_cache(merged, df_new, path) on the frame the first call returned
MergeAgain ==
    /\ arg.fn = "merge_cache"
    /\ out.stage = 1
    /\ LET r == MergeCache(out.df, arg.new)
       IN  out' = [stage |-> 2, all |-> MergeInput(out.df, arg.new),
                   df |-> r.df, file |-> r.file,
                   prevDf |-> out.df, prevFile |-> out.file]
    /\ UNCHANGED arg
    /\ UNCHANGED notFun

MergeNext == MergeOnce \/ MergeAgain

(***************************************************************************)
(* db_state.filter_names_to_fetch                                          *)
(***************************************************************************)
\* candidate names of one call
MaxCandidates == 3

\* What the loop does when it keeps no set of seen keys
AlreadySeen_Never(key, seen) == FALSE

\* if key in seen: continue
AlreadySeen(key, seen) == key \in seen

RECURSIVE FilterLoop(_, _, _, _, _, _)
\* the for loop, from the names still to visit, out and seen
FilterLoop(rest, known_names_lower, known_cids_str, attempted_queries_lower, kept, seen) ==
    IF rest = <<>> THEN kept
    ELSE LET s == Strip(Head(rest))
             key == Lower(s)
             skip == \/ key \in attempted_queries_lower
                     \/ IsDigit(s) /\ s \in known_cids_str
                     \/ key \in known_names_lower
         IN  IF s = <<>> \/ AlreadySeen(key, seen)
             THEN FilterLoop(Tail(rest), known_names_lower, known_cids_str,
                             attempted_queries_lower, kept, seen)
             ELSE FilterLoop(Tail(rest), known_names_lower, known_cids_str,
                             attempted_queries_lower,
                             IF skip THEN kept ELSE Append(kept, s),
                             seen \cup {key})

filter_names_to_fetch(candidates, known_names_lower, known_cids_str, attempted_queries_lower) ==
    FilterLoop(candidates, known_names_lower, known_cids_str, attempted_queries_lower,
               <<>>, {})

Candidates == {<<"a">>, <<" ", "A">>, <<"7">>, <<" ">>}
CandidateLists == UNION {[1..n -> Candidates] : n \in 0..MaxCandidates}

FilterInit ==
    /\ \E cs \in CandidateLists, kn \in SUBSET {<<"a">>}, kc \in SUBSET {<<"7">>},
          att \in SUBSET {<<"a">>, <<"7">>} :
          arg = [fn |-> "filter_names_to_fetch", names |-> cs,
                 known_names_lower |-> kn, known_cids_str |-> kc,
                 attempted_queries_lower |-> att]
    /\ out = [stage |-> 0]

FilterCall ==
    /\ arg.fn = "filter_names_to_fetch"
    /\ out.stage = 0
    /\ out' = [stage |-> 1,
               names |-> filter_names_to_fetch(arg.names, arg.known_names_lower,
                            arg.known_cids_str, arg.attempted_queries_lower)]
    /\ UNCHANGED arg
    /\ UNCHANGED notFun

FilterNext == FilterCall

(***************************************************************************)
(* The parquet table the pipeline builds, and what the next run knows of   *)
(* it: the columns PubChem CID and PubChem Name                            *)
(***************************************************************************)
NoParquet == [exists |-> FALSE, rows |-> <<>>]

IsOk(row) == Lower(Strip(PyStr(Get(row.status, S(<<>>))))) = <<"ok">>

\* successful_only
successful_only(df) ==
    IF FrameEmpty(df) THEN EmptyFrame
    ELSE LET oks == IF HasCol(df, "status") THEN SelectSeq(df, IsOk) ELSE df
             HasCid(row) == NormCid(row.cid) # <<>>
         IN  IF ~HasCol(df, "cid") THEN EmptyFrame
             ELSE SelectSeq(
                    AsList([i \in 1..Len(oks) |->
                        [oks[i] EXCEPT !.cid =
                            IF NormCid(oks[i].cid) = <<>> THEN None
                            ELSE S(NormCid(oks[i].cid))]]),
                    HasCid)

\* best_per_cid: sorted by CID, one row for each, the highest _score_row
\* and among equal scores the highest _idx
best_per_cid(df) ==
    LET cid == AsList([i \in 1..Len(df) |-> df[i].cid.v])
        score == AsList([i \in 1..Len(df) |-> ScoreRow(df[i])])
        cids == SortStrings({cid[i] : i \in 1..Len(df)})
    IN  AsList([k \in 1..Len(cids) |-> df[KeptIndex(cid, score, cids[k])]])

\* _score_best_per_cid_row
score_best_per_cid_row(row) ==
    BoolInt(Lower(Strip(PyStr(Get(row.status, S(<<>>))))) = <<"ok">>, 10000)
    + BoolInt(~IsNull(row.name) /\ Strip(PyStr(row.name)) # <<>>, 500)
    + BoolInt(~IsNull(row.formula) /\ Strip(PyStr(row.formula)) # <<>>, 500)
    + BoolInt(~IsNull(row.mw), 500)
    + BoolInt(~IsNull(row.smiles) /\ Strip(PyStr(row.smiles)) # <<>>, 100)

\* A frame that keeps every row
BestRowPerCid_KeepAll(df) == df

\* build_compound_db, the rows of each CID reduced to one: sort_values by
\* ["PubChem CID", "_score", "_idx"], ascending [True, False, False], then
\* drop_duplicates(subset="PubChem CID", keep="first")
BestRowPerCid(df) ==
    LET cid == AsList([i \in 1..Len(df) |-> df[i].cid.v])
        score == AsList([i \in 1..Len(df) |-> score_best_per_cid_row(df[i])])
        cids == SortStrings({cid[i] : i \in 1..Len(df)})
    IN  AsList([k \in 1..Len(cids) |-> df[KeptIndex(cid, score, cids[k])]])

\* build_compound_db: the ok rows that have a CID, the CID made a clean
\* string, one row for each CID; of the final columns the id and the name
build_compound_db(df_raw) ==
    IF FrameEmpty(df_raw) THEN <<>>
    ELSE LET oks == IF HasCol(df_raw, "status") THEN SelectSeq(df_raw, IsOk) ELSE df_raw
             NotNa(row) == ~IsNull(row.cid)
             Clean(row) ==
                 [row EXCEPT !.cid = S(RemoveSuffix(Strip(PyStr(row.cid)), DotZero))]
             HasCid(row) == Lower(row.cid.v) # Lower(StrNone) /\ row.cid.v # <<>>
             with == SelectSeq(oks, NotNa)
             clean == SelectSeq(AsList([i \in 1..Len(with) |-> Clean(with[i])]), HasCid)
             best == BestRowPerCid(clean)
         IN  IF ~HasCol(df_raw, "cid") THEN <<>>
             ELSE AsList([i \in 1..Len(best) |->
                     [cid |-> best[i].cid.v, name |-> best[i].name]])

\* build_and_save_parquet
SaveParquet(df) == [exists |-> TRUE, rows |-> build_compound_db(df)]

\* load_parquet_known: (known_names_lower, known_cids_str)
load_parquet_known(file) ==
    IF ~file.exists THEN [names |-> {}, cids |-> {}]
    ELSE [names |-> {Lower(Strip(PyStr(file.rows[i].name))) :
                        i \in {j \in 1..Len(file.rows) : ~IsNull(file.rows[j].name)}}
                    \ {<<>>},
          cids |-> {file.rows[i].cid : i \in 1..Len(file.rows)}
                    \ {<<>>, Lower(StrNone)}]

(***************************************************************************)
(* build_compound_db.main: one run after another                           *)
(***************************************************************************)
\* extended names of one run
MaxSeeds == 2
\* runs
MaxRuns == 2

SeedNames == {<<"a">>, <<" ", "A">>, <<"0", "0">>, <<"7">>}
SeedLists == UNION {[1..n -> SeedNames] : n \in 0..MaxSeeds}

\* What the two remote calls of _fetch_record_for_name can make of a name:
\* the identifier call resolves 7 or nothing, the properties call returns
\* None or properties.
RunOutcomes(q) ==
    {RecordFromProps(Strip(q), cid, b) :
        cid \in {None, CidFromBody(BodyCids)},
        b \in {BodyFalsy, BodyProps(PropsFull), BodyProps(PropsBare)}}

CompletionOrders(n) == {f \in [1..n -> 1..n] : \A i, j \in 1..n : f[i] = f[j] => i = j}

NoRun == [pc |-> "idle", n |-> 0, cached |-> EmptyFrame, toFetch |-> <<>>]

PipeIdle ==
    /\ cacheFile = NoFile
    /\ parquet = NoParquet
    /\ run = NoRun

PipeInit == PipeIdle

\* Steps 3.5 and 4: merge_cache, successful_only, best_per_cid,
\* build_and_save_parquet; the run is complete.
Finish(cached, new) ==
    LET m == MergeCache(cached, new)
    IN  /\ cacheFile' = m.file
        /\ parquet' = SaveParquet(best_per_cid(successful_only(m.df)))
        /\ run' = [NoRun EXCEPT !.n = run.n + 1]

\* main up to step 3: the state is loaded and the names to fetch are
\* chosen; with none to fetch the run goes on to its end.
RunStart(extended) ==
    /\ run.pc = "idle"
    /\ run.n < MaxRuns
    /\ LET known == load_parquet_known(parquet)
           cache == LoadCache(cacheFile)
           toFetch == filter_names_to_fetch(extended, known.names, known.cids,
                                            cache.attempted)
       IN  IF toFetch # <<>>
           THEN /\ run' = [pc |-> "fetch", n |-> run.n, cached |-> cache.df,
                           toFetch |-> toFetch]
                /\ UNCHANGED <<cacheFile, parquet>>
           ELSE Finish(cache.df, EmptyFrame)
    /\ UNCHANGED notPipe

\* Step 3 returns: an outcome for every name, in the order the lookups
\* completed; then the run goes on to its end.
RunFetch ==
    /\ run.pc = "fetch"
    /\ \E recs \in [1..Len(run.toFetch) -> UNION {RunOutcomes(q) : q \in SeedNames}],
          order \in CompletionOrders(Len(run.toFetch)) :
          /\ \A i \in 1..Len(run.toFetch) : recs[i] \in RunOutcomes(run.toFetch[i])
          /\ Finish(run.cached,
                    MakeFrame([k \in 1..Len(run.toFetch) |-> recs[order[k]]]))
    /\ UNCHANGED notPipe

\* Step 3 raises (a 200 whose body does not decode): main ends there, no
\* file is written.
RunAbort ==
    /\ run.pc = "fetch"
    /\ run' = [NoRun EXCEPT !.n = run.n + 1]
    /\ UNCHANGED <<cacheFile, parquet>>
    /\ UNCHANGED notPipe

PipeNext ==
    \/ \E extended \in SeedLists : RunStart(extended)
    \/ RunFetch
    \/ RunAbort

(***************************************************************************)
(* build_compound_db.main started on files of an earlier run               *)
(***************************************************************************)
\* The table file and the cache file as a run may find them: none, the
\* files a run on "7" left, the table without its cache (tmp/ removed) or
\* with a cache that was emptied.
RebuildInit ==
    /\ parquet \in {NoParquet,
                    SaveParquet(MakeFrame(<<OkRec(<<"7">>, None, PropsFull)>>))}
    /\ cacheFile \in {NoFile, File(<<>>),
                      File(SaveCache(MakeFrame(<<OkRec(<<"7">>, None, PropsFull)>>)))}
    /\ run = NoRun

(***************************************************************************)
(* optithor: the compound table                                            *)
(*                                                                         *)
(* A row of the table has the six REQUIRED_COLUMNS: cid, name, formula,    *)
(* formula0 (Formula (-H2O)), mw and mw0 (MW (-H2O)). A molar mass is a    *)
(* whole number of g/mol.                                                  *)
(***************************************************************************)
Num(n) == [k |-> "float", v |-> <<>>, n |-> n]

\* molar_mass_h2o, in whole g/mol
H2OMass == 18

DigitValue(c) ==
    CASE c = "0" -> 0 [] c = "1" -> 1 [] c = "2" -> 2 [] c = "7" -> 7 [] c = "8" -> 8
      [] c = "9" -> 9 [] OTHER -> 0

RECURSIVE StrToInt(_)
\* int(s) for a digit string s
StrToInt(s) ==
    IF s = <<>> THEN 0 ELSE 10 * StrToInt(SubSeq(s, 1, Len(s) - 1)) + DigitValue(s[Len(s)])

\* pd.to_numeric(x, errors="coerce")
ToNumeric(c) ==
    CASE c.k = "float" -> c
      [] c.k = "int" -> Num(StrToInt(c.v))
      [] c.k = "str" /\ IsDigit(Strip(c.v)) -> Num(StrToInt(Strip(c.v)))
      [] OTHER -> NaN

\* _normalize_cid
normalize_cid(c) ==
    LET s == Strip(PyStr(c))
    IN  IF s = <<>> \/ Lower(s) \in {Lower(StrNone), StrNan} THEN <<>>
        ELSE RemoveSuffix(s, DotZero)

\* CompoundDb.normalize
Normalize(df) ==
    AsList([i \in 1..Len(df) |->
        [cid |-> S(RemoveSuffix(Strip(PyStr(df[i].cid)), DotZero)),
         name |-> S(PyStr(df[i].name)),
         formula |-> S(PyStr(df[i].formula)),
         formula0 |-> S(PyStr(df[i].formula0)),
         mw |-> ToNumeric(df[i].mw),
         mw0 |-> ToNumeric(df[i].mw0)]])

RECURSIVE SplitOn(_, _)
\* s.split(sep) for a separator of one character
SplitOn(s, sep) ==
    IF \A i \in 1..Len(s) : s[i] # sep THEN <<s>>
    ELSE LET i == CHOOSE k \in 1..Len(s) : s[k] = sep /\ \A j \in 1..(k - 1) : s[j] # sep
         IN  <<SubSeq(s, 1, i - 1)>> \o SplitOn(SubSeq(s, i + 1, Len(s)), sep)

\* the hydrate separators beside ".": the bullet and the middle dot, each
\* one character
Bullet == "U+2022"
MiddleDot == "U+00B7"

\* \w of a regular expression, on the characters that occur
IsWordChar(c) == c \notin {" ", ".", Bullet, MiddleDot}

\* re.search(r"(?:(\d+))?H2O\b", compact): the leftmost H2O that ends a
\* word, with the digits just before it; 0 for no match, else the count
\* int(group 1), 1 without digits
WaterMatch(compact) ==
    LET hs == {h \in 1..(Len(compact) - 2) :
                  /\ SubSeq(compact, h, h + 2) = <<"H", "2", "O">>
                  /\ (h + 3 > Len(compact) \/ ~IsWordChar(compact[h + 3]))}
        h == CHOOSE x \in hs : \A y \in hs : x <= y
        ds == {d \in 0..(h - 1) : \A j \in (h - d)..(h - 1) : compact[j] \in Digits}
        d == CHOOSE x \in ds : \A y \in ds : y <= x
    IN  IF hs = {} THEN [found |-> FALSE, count |-> 0]
        ELSE [found |-> TRUE,
              count |-> IF d = 0 THEN 1 ELSE StrToInt(SubSeq(compact, h - d, h - 1))]

RECURSIVE FirstWater(_)
\* the loop over parts[1:]: the count of the first part that matches
FirstWater(parts) ==
    IF parts = <<>> THEN 0
    ELSE LET NotBlank(c) == c # " "
             m == WaterMatch(SelectSeq(Head(parts), NotBlank))
         IN  IF m.found THEN m.count ELSE FirstWater(Tail(parts))

\* s.replace("·", "•").replace(".", "•")
ToBullets(s) ==
    [i \in 1..Len(s) |-> IF s[i] \in {MiddleDot, "."} THEN Bullet ELSE s[i]]

\* utils.split_hydrate_formula
split_hydrate_formula(f) ==
    LET s == ToBullets(Strip(f))
        NotEmpty1(x) == x # <<>>
        all == SplitOn(s, Bullet)
        parts == SelectSeq(AsList([i \in 1..Len(all) |-> Strip(all[i])]), NotEmpty1)
    IN  IF f = <<>> THEN [base |-> <<>>, water |-> 0]
        ELSE IF Len(all) = 1 THEN [base |-> s, water |-> 0]
        ELSE IF parts = <<>> THEN [base |-> s, water |-> 0]
        ELSE [base |-> Head(parts), water |-> FirstWater(Tail(parts))]

\* the positions of a set in ascending order
RECURSIVE Ascending(_)
Ascending(ps) ==
    IF ps = {} THEN <<>>
    ELSE LET m == CHOOSE x \in ps : \A y \in ps : x <= y
         IN  <<m>> \o Ascending(ps \ {m})

\* paths.ensure_db_schema
ensure_db_schema(df) ==
    LET co == AsList([i \in 1..Len(df) |->
                  [df[i] EXCEPT !.formula = S(PyStr(@)), !.formula0 = S(PyStr(@)),
                                !.mw = ToNumeric(@), !.mw0 = ToNumeric(@)]])
        needs_formula == {i \in 1..Len(co) : Strip(co[i].formula0.v) = <<>>}
        needs_mw == {i \in 1..Len(co) : co[i].mw0.k = "nan"}
        needs_any == Ascending(needs_formula \cup needs_mw)
        parts == AsList([k \in 1..Len(needs_any) |->
                     split_hydrate_formula(co[needs_any[k]].formula.v)])
        \* the bases handed to the rows that need a formula: the first ones
        \* of the rows that need anything
        targets == Ascending(needs_formula)
        RankIn(list, i) == CHOOSE k \in 1..Len(list) : list[k] = i
        Base(i) == parts[RankIn(targets, i)].base
        Water(i) == IF i \in needs_formula \cup needs_mw
                    THEN parts[RankIn(needs_any, i)].water ELSE 0
        Minus(i) == IF co[i].mw.k = "nan" THEN NaN
                    ELSE Num(co[i].mw.n - Water(i) * H2OMass)
    IN  AsList([i \in 1..Len(co) |->
            [co[i] EXCEPT
                !.formula0 = IF i \in needs_formula THEN S(Base(i)) ELSE @,
                !.mw0 = IF i \in needs_mw THEN Minus(i) ELSE @]])

\* _completeness_score
completeness_score(row) ==
    LET Filled(c) == CASE c.k \in {"absent", "none", "nan"} -> 0
                       [] c.k = "str" /\ Strip(c.v) = <<>> -> 0
                       [] OTHER -> 1
    IN  Filled(row.name) + Filled(row.formula) + Filled(row.formula0)
        + Filled(row.mw) + Filled(row.mw0)

\* A merge that loses the first row of the table
dedupe_keep_most_complete_DropsFirst(df) == Tail(df)

\* _dedupe_keep_most_complete: sorted by CID, one row for each, the highest
\* score and among equal scores the first (the sort is stable)
dedupe_keep_most_complete(df) ==
    LET cid == AsList([i \in 1..Len(df) |-> df[i].cid.v])
        score == AsList([i \in 1..Len(df) |-> completeness_score(df[i])])
        cids == SortStrings({cid[i] : i \in 1..Len(df)})
        First(c) == CHOOSE i \in 1..Len(df) :
                        /\ cid[i] = c
                        /\ \A j \in 1..Len(df) : cid[j] = c =>
                              \/ score[j] < score[i]
                              \/ score[j] = score[i] /\ i <= j
    IN  AsList([k \in 1..Len(cids) |-> df[First(cids[k])]])

(***************************************************************************)
(* CompoundDb.load and the table files                                     *)
(***************************************************************************)
\* REQUIRED_COLUMNS, in the order sorted() puts their names
RequiredSorted ==
    <<"Formula", "Formula (-H2O)", "MW", "MW (-H2O)", "PubChem CID", "PubChem Name">>
REQUIRED_COLUMNS == {RequiredSorted[i] : i \in DOMAIN RequiredSorted}

\* A parquet file: readable tells whether pd.read_parquet reads it, columns
\* are the columns it has. BadTable is a file that is no parquet file.
NoTable == [exists |-> FALSE, readable |-> FALSE, columns |-> {}, rows |-> <<>>]
BadTable == [exists |-> TRUE, readable |-> FALSE, columns |-> {}, rows |-> <<>>]
TableFile(rows) ==
    [exists |-> TRUE, readable |-> TRUE, columns |-> REQUIRED_COLUMNS, rows |-> rows]

\* the row as a file with the columns cols holds it
Project(cols, row) ==
    [cid |-> IF "PubChem CID" \in cols THEN row.cid ELSE Absent,
     name |-> IF "PubChem Name" \in cols THEN row.name ELSE Absent,
     formula |-> IF "Formula" \in cols THEN row.formula ELSE Absent,
     formula0 |-> IF "Formula (-H2O)" \in cols THEN row.formula0 ELSE Absent,
     mw |-> IF "MW" \in cols THEN row.mw ELSE Absent,
     mw0 |-> IF "MW (-H2O)" \in cols THEN row.mw0 ELSE Absent]

\* a parquet file that has the columns cols only
TableWith(cols, rows) ==
    [exists |-> TRUE, readable |-> TRUE, columns |-> cols,
     rows |-> AsList([i \in 1..Len(rows) |-> Project(cols, rows[i])])]

\* the columns of a table written before the anhydrous columns existed
LegacyColumns == REQUIRED_COLUMNS \ {"Formula (-H2O)", "MW (-H2O)"}

\* A check that finds every table complete
validate_schema_Lenient(columns) == <<>>

\* CompoundDb.validate_schema: sorted(REQUIRED_COLUMNS - set(df.columns)),
\* the columns the DataError names; empty when nothing is raised
validate_schema(columns) ==
    LET Missing(c) == c \notin columns
    IN  SelectSeq(RequiredSorted, Missing)

Row7 ==
    [cid |-> S(<<"7">>), name |-> S(<<"a">>), formula |-> S(<<"b">>),
     formula0 |-> S(<<"b">>), mw |-> Num(18), mw0 |-> Num(18)]
Row7Bare ==
    [cid |-> S(<<"7", ".", "0">>), name |-> None, formula |-> S(<<"b">>),
     formula0 |-> S(<<>>), mw |-> Num(18), mw0 |-> NaN]
Row9Hydrate ==
    [cid |-> S(<<"9">>), name |-> S(<<"A">>),
     formula |-> S(<<"b", ".", "2", "H", "2", "O">>),
     formula0 |-> S(<<>>), mw |-> Num(54), mw0 |-> NaN]

Tables == {<<>>, <<Row7>>, <<Row9Hydrate, Row7>>, <<Row7, Row7Bare>>}

\* A cache copy that is there is never overwritten
ensure_db_in_cache_KeepsCache(st, force_reload) ==
    IF st.cache.exists THEN st
    ELSE IF ~st.packaged.exists THEN st
    ELSE [st EXCEPT !.cache = st.packaged]

\* paths.ensure_db_in_cache
ensure_db_in_cache(st, force_reload) ==
    IF st.cache.exists /\ ~force_reload THEN st
    ELSE IF ~st.packaged.exists THEN st
    ELSE [st EXCEPT !.cache = st.packaged]

\* CompoundDb.load: the files after it, and the frame or a DataError:
\* err tells which ("not found", "failed to read", "missing columns"),
\* missing the columns the message lists
Load(st, force_reload) ==
    LET after == ensure_db_in_cache(st, force_reload)
        file == after.cache
        missing == validate_schema(file.columns)
        err == IF ~file.exists THEN "not found"
               ELSE IF ~file.readable THEN "failed to read"
               ELSE IF missing # <<>> THEN "missing columns"
               ELSE ""
    IN  [store |-> after,
         ok |-> err = "",
         err |-> err,
         missing |-> IF err = "missing columns" THEN missing ELSE <<>>,
         df |-> IF err = "" THEN Normalize(file.rows) ELSE <<>>]

(***************************************************************************)
(* PubChemClient.fetch_by_cid and CompoundDb._fetch_missing_rows_async     *)
(***************************************************************************)
\* The responses a lookup by CID may get: a status other than 200, a
\* transport error, a timeout, a 200 whose body does not decode, a 200
\* with an empty property list, a 200 with a property dict.
CidResponses ==
    {[status |-> 200, kind |-> "json", body |-> b] :
        b \in {BodyFault, BodyProps(PropsBare), BodyProps(PropsFull)}}
    \cup {[status |-> 200, kind |-> "badjson", body |-> BodyFalsy],
          [status |-> OtherStatus, kind |-> "status", body |-> BodyFalsy],
          [status |-> 0, kind |-> "error", body |-> BodyFalsy],
          [status |-> 0, kind |-> "timeout", body |-> BodyFalsy]}

\* the dict fetch_by_cid returns for the property dict p0
FetchedRecord(cid, p0) ==
    [cid |-> S(RemoveSuffix(Strip(PyStr(Get(p0.CID, S(cid)))), DotZero)),
     name |-> Get(p0.Title, None),
     formula |-> Get(p0.MolecularFormula, None),
     mw |-> Get(p0.MolecularWeight, None)]

\* PubChemClient.fetch_by_cid answered by r: None, the record of the first
\* property dict (recs), or an exception. The method catches nothing: what
\* session.get or resp.json() raises leaves it.
fetch_by_cid(cid, r) ==
    CASE r.kind = "error" -> [kind |-> "raise", exc |-> "ClientError", recs |-> <<>>]
      [] r.kind = "timeout" -> [kind |-> "raise", exc |-> "TimeoutError", recs |-> <<>>]
      [] r.status # 200 -> [kind |-> "none", exc |-> "", recs |-> <<>>]
      [] r.kind = "badjson" -> [kind |-> "raise", exc |-> "JSONDecodeError", recs |-> <<>>]
      [] r.body.props = <<>> -> [kind |-> "none", exc |-> "", recs |-> <<>>]
      [] OTHER -> [kind |-> "rec", exc |-> "",
                   recs |-> <<FetchedRecord(cid, r.body.props[1])>>]

\* the row _fetch_missing_rows_async appends for a record
FetchedRow(rec) ==
    [cid |-> S(normalize_cid(rec.cid)),
     name |-> PyOr(rec.name, S(<<>>)),
     formula |-> PyOr(rec.formula, S(<<>>)),
     formula0 |-> PyOr(rec.formula, S(<<>>)),
     mw |-> rec.mw,
     mw0 |-> rec.mw]

(***************************************************************************)
(* CompoundDb.get_compounds_by_cids and get_compounds_by_cids_async        *)
(***************************************************************************)
\* identifiers of one request
MaxWanted == 2

WantedIds == {I(<<"7">>), S(<<"7", ".", "0">>), S(<<"9">>), S(<<"8">>), None}
WantedLists == UNION {[1..n -> WantedIds] : n \in 0..MaxWanted}

\* What the calls do when they fetch whatever the flag says
FetchWanted_Always(fetch_missing) == TRUE

\* if fetch_missing:
FetchWanted(fetch_missing) == fetch_missing

\* wanted = [_normalize_cid(x) for x in cids], the empty ones dropped
WantedOf(cids) ==
    LET NotEmpty1(x) == x # <<>>
    IN  SelectSeq(AsList([i \in 1..Len(cids) |-> normalize_cid(cids[i])]), NotEmpty1)

\* df[df["PubChem CID"].isin(wanted_set)]
HitOf(df, wanted) ==
    LET Asked(row) == \E k \in 1..Len(wanted) : wanted[k] = row.cid.v
    IN  SelectSeq(df, Asked)

HasDuplicates(list) == \E i, j \in 1..Len(list) : i < j /\ list[i] = list[j]

RECURSIVE InOrderOf(_, _)
\* sort_values on the categorical: the rows of each category in turn
InOrderOf(hit, categories) ==
    IF categories = <<>> THEN <<>>
    ELSE LET Here(row) == row.cid.v = Head(categories)
         IN  SelectSeq(hit, Here) \o InOrderOf(hit, Tail(categories))

NoResolve ==
    [pc |-> "idle", caller |-> "", mode |-> "", loop |-> FALSE, cids |-> <<>>,
     fetch_missing |-> FALSE,
     force_reload |-> FALSE, update_cache |-> FALSE, wanted |-> <<>>, loaded |-> FALSE,
     df |-> <<>>, hit |-> <<>>, missing |-> <<>>, records |-> <<>>, calls |-> <<>>,
     replies |-> <<>>, result |-> <<>>, exc |-> "", wrote |-> FALSE,
     before |-> [cache |-> NoTable, packaged |-> NoTable], after_write |-> FALSE,
     err |-> "", detail |-> <<>>, earlier |-> <<>>]

ReturnRows(r, rows) == [r EXCEPT !.pc = "returned", !.result = rows]
RaiseIn(r, exc) == [r EXCEPT !.pc = "raised", !.exc = exc]
\* load raised DataError
RaiseData(r, l) == [RaiseIn(r, "DataError") EXCEPT !.err = l.err, !.detail = l.missing]

\* The end of both functions: empty_db_df() for no hit, else the hit in
\* the order of wanted; pd.Categorical raises ValueError when its
\* categories are not unique.
Ordered(r, hit) ==
    IF hit = <<>> THEN ReturnRows(r, <<>>)
    ELSE IF HasDuplicates(r.wanted) THEN RaiseIn(r, "ValueError")
    ELSE ReturnRows(r, InOrderOf(hit, r.wanted))

DbIdle ==
    /\ store = [cache |-> NoTable, packaged |-> NoTable]
    /\ resolve = NoResolve

DbInit ==
    /\ \E c \in {NoTable, BadTable, TableWith(LegacyColumns, <<Row9Hydrate, Row7>>),
                  TableWith({"PubChem CID", "Formula", "MW (-H2O)"}, <<Row7>>)}
                 \cup {TableFile(rows) : rows \in Tables},
          p \in {NoTable, TableFile(<<Row7>>)} :
          store = [cache |-> c, packaged |-> p]
    /\ resolve = NoResolve

\* A synchronous call that would fetch nothing at all
Refuses_Never(fetch_missing, in_running_event_loop) == FALSE

\* if fetch_missing and _in_running_event_loop(): raise RuntimeError
Refuses(fetch_missing, in_running_event_loop) == fetch_missing /\ in_running_event_loop

\* The call up to its first await, or to its end when it awaits nothing;
\* loop tells whether the caller runs in an event loop.
Begin(r0, in_running_event_loop) ==
    LET r == [r0 EXCEPT !.loop = in_running_event_loop]
    IN  IF r.mode = "sync" /\ Refuses(r.fetch_missing, in_running_event_loop)
        THEN /\ resolve' = RaiseIn(r, "RuntimeError")
             /\ UNCHANGED store
        ELSE \E wanted \in {WantedOf(r.cids)} :
             LET r1 == [r EXCEPT !.wanted = wanted]
             IN  IF wanted = <<>>
                 THEN /\ resolve' = ReturnRows(r1, <<>>)
                      /\ UNCHANGED store
                 ELSE \E l \in {Load(store, r.force_reload)} :
                      \E hit \in {HitOf(l.df, wanted)} :
                      LET NotHit(w) == \A i \in 1..Len(hit) : hit[i].cid.v # w
                          missing == SelectSeq(wanted, NotHit)
                          r2 == [r1 EXCEPT !.loaded = l.ok, !.df = l.df, !.hit = hit]
                      IN  /\ store' = l.store
                          /\ resolve' =
                               IF ~l.ok THEN RaiseData(r1, l)
                               ELSE IF l.df = <<>> THEN ReturnRows(r2, <<>>)
                               ELSE IF FetchWanted(r.fetch_missing) /\ missing # <<>>
                               THEN [r2 EXCEPT !.pc = "fetching", !.missing = missing]
                               ELSE Ordered(r2, hit)

\* A caller resolves identifiers.
Resolve(cids, mode, fetch_missing, force_reload, update_cache, in_running_event_loop) ==
    /\ resolve.pc = "idle"
    /\ Begin([NoResolve EXCEPT !.caller = "user", !.mode = mode, !.cids = cids,
                               !.fetch_missing = fetch_missing,
                               !.force_reload = force_reload,
                               !.update_cache = update_cache],
             in_running_event_loop)
    /\ UNCHANGED notDb

\* optimize_medium resolves its compounds:
\* compound_repository.get_compounds_by_cids(medium_input.compound_cids)
OptimizeResolve(cids, in_running_event_loop) ==
    /\ resolve.pc = "idle"
    /\ Begin([NoResolve EXCEPT !.caller = "optimize_medium", !.mode = "sync",
                               !.cids = cids, !.update_cache = TRUE],
             in_running_event_loop)
    /\ UNCHANGED notDb

\* A call that writes the merged table whatever the flag says
Persists_Always(update_cache) == TRUE

\* if update_cache: self._write_cache(df_all)
Persists(update_cache) == update_cache

\* After the last lookup: the fetched rows join the table, the cache file
\* is written, the hit is taken again.
AfterFetch(r) ==
    IF r.records = <<>>
    THEN /\ resolve' = Ordered(r, r.hit)
         /\ UNCHANGED store
    ELSE \E df_new \in {ensure_db_schema(Normalize(
                 AsList([i \in 1..Len(r.records) |-> FetchedRow(r.records[i])])))} :
         \E df_all \in {dedupe_keep_most_complete(
                 ensure_db_schema(Normalize(r.df \o df_new)))} :
         \E hit \in {HitOf(df_all, r.wanted)} :
            /\ resolve' = Ordered([r EXCEPT !.df = df_all, !.hit = hit,
                                            !.wrote = Persists(r.update_cache)], hit)
            /\ store' = IF Persists(r.update_cache)
                        THEN [store EXCEPT !.cache = TableFile(df_all)] ELSE store

\* rec = await client.fetch_by_cid(cid) returns or raises, the remote end
\* having answered response
FetchByCid(response) ==
    /\ resolve.pc = "fetching"
    /\ LET cid == Head(resolve.missing)
           reply == fetch_by_cid(cid, response)
           r == [resolve EXCEPT
                    !.calls = Append(@, cid),
                    !.replies = Append(@, response),
                    !.missing = Tail(@),
                    !.records = @ \o reply.recs]
       IN  IF reply.kind = "raise"
           THEN /\ resolve' = RaiseIn(r, reply.exc)
                /\ UNCHANGED store
           ELSE IF r.missing # <<>>
           THEN /\ resolve' = r
                /\ UNCHANGED store
           ELSE AfterFetch(r)
    /\ UNCHANGED notDb

\* A caller loads the table: repo.load(force_reload=...), at any time
\* between calls. before is the files as the call found them, after_write
\* tells that the call before it wrote fetched rows back; df is the frame
\* returned.
LoadTable(force_reload) ==
    /\ resolve.pc \in {"idle", "returned", "raised"}
    /\ resolve.mode # "load"
    /\ LET l == Load(store, force_reload)
           r == [NoResolve EXCEPT !.caller = "user", !.mode = "load",
                                  !.force_reload = force_reload,
                                  !.before = store, !.after_write = resolve.wrote,
                                  !.loaded = l.ok, !.df = l.df]
       IN  /\ store' = l.store
           /\ resolve' = IF l.ok THEN [r EXCEPT !.pc = "returned"]
                                 ELSE RaiseData(r, l)
    /\ UNCHANGED notDb

DbNext ==
    \/ /\ resolve.pc = "idle"
       /\ \E cids \in WantedLists, mode \in {"sync", "async"}, fetch_missing \in BOOLEAN,
          force_reload \in BOOLEAN :
          \E update_cache \in IF fetch_missing THEN BOOLEAN ELSE {TRUE},
             loop \in IF mode = "sync" THEN BOOLEAN ELSE {TRUE} :
             Resolve(cids, mode, fetch_missing, force_reload, update_cache, loop)
    \/ /\ resolve.pc = "idle"
       /\ \E cids \in WantedLists, loop \in BOOLEAN : OptimizeResolve(cids, loop)
    \/ \E response \in CidResponses : FetchByCid(response)
    \/ \E force_reload \in BOOLEAN : LoadTable(force_reload)

(***************************************************************************)
(* examples/fetch_and_reload: a call that fetches, then a later call on    *)
(* the same CompoundDb                                                     *)
(***************************************************************************)
\* The identifiers the two calls ask for, no identifier twice
SessionIds == {S(<<"7">>), S(<<"8">>), S(<<"9">>)}
SessionLists ==
    {l \in UNION {[1..n -> SessionIds] : n \in 1..MaxWanted} : ~HasDuplicates(l)}

\* What PubChem answers a lookup of cid: a status other than 200, a
\* transport error, a property dict without CID, and for 7 its full
\* property dict.
SessionResponses(cid) ==
    {r \in CidResponses :
        \/ r.kind \in {"status", "error"}
        \/ r.kind = "json" /\ r.body = BodyProps(PropsBare)
        \/ r.kind = "json" /\ r.body = BodyProps(PropsFull) /\ cid = <<"7">>}

SessionInit ==
    /\ \E rows \in {<<Row9Hydrate>>, <<Row9Hydrate, Row7>>} :
          store = [cache |-> TableFile(rows), packaged |-> NoTable]
    /\ resolve = NoResolve

\* await repo.get_compounds_by_cids_async(cids, fetch_missing=True,
\* update_cache=...): the first call. before is the files as the call
\* found them.
ResolveFirst(cids, update_cache) ==
    /\ resolve.pc = "idle"
    /\ Begin([NoResolve EXCEPT !.caller = "user", !.mode = "async", !.cids = cids,
                               !.fetch_missing = TRUE,
                               !.update_cache = update_cache,
                               !.before = store],
             TRUE)
    /\ UNCHANGED notDb

\* A later call for one identifier, the first having returned or raised;
\* earlier is the first call as it ended.
ResolveLater(cid, fetch_missing) ==
    /\ resolve.pc \in {"returned", "raised"}
    /\ resolve.earlier = <<>>
    /\ Begin([NoResolve EXCEPT !.caller = "user", !.mode = "async", !.cids = <<cid>>,
                               !.fetch_missing = fetch_missing,
                               !.update_cache = TRUE,
                               !.before = store,
                               !.earlier = <<resolve>>],
             TRUE)
    /\ UNCHANGED notDb

\* a lookup of either call is answered
SessionFetch ==
    /\ resolve.pc = "fetching"
    /\ \E response \in SessionResponses(Head(resolve.missing)) : FetchByCid(response)

SessionNext ==
    \/ /\ resolve.pc = "idle"
       /\ \E cids \in SessionLists, update_cache \in BOOLEAN :
             ResolveFirst(cids, update_cache)
    \/ \E cid \in SessionIds, fetch_missing \in BOOLEAN : ResolveLater(cid, fetch_missing)
    \/ SessionFetch

(***************************************************************************)
(* Writing a file in place, and reading it meanwhile                       *)
(*                                                                         *)
(* write_json (Path.write_text), save_parquet and CompoundDb._write_cache  *)
(* (DataFrame.to_parquet) open the target path itself for writing: the     *)
(* open truncates the file, the contents follow piece by piece, the close  *)
(* completes it. No temporary file, rename or lock is involved. A file is  *)
(* the pieces it holds (rows, records) and whole, which tells that it has  *)
(* been written to its end.                                                *)
(***************************************************************************)
\* pieces of one file
MaxPieces == 2

Pieces == {"r1", "r2"}
Contents == UNION {[1..n -> Pieces] : n \in 0..MaxPieces}

\* the three writers and the file each writes
Writers == {"write_json", "save_parquet", "_write_cache"}

NoDiskFile == [exists |-> FALSE, pieces |-> <<>>, whole |-> FALSE]
WholeFile(c) == [exists |-> TRUE, pieces |-> c, whole |-> TRUE]
NotRead == [exists |-> FALSE, pieces |-> <<"not read">>, whole |-> FALSE]

\*   fn: the writer; file: the file on disk; old: the file before the
\*   write; pc: "before" | "open" (the write is in progress) | "closed";
\*   new: the contents being written; seen: what the reader found
IoIdle ==
    io = [fn |-> "none", file |-> NoDiskFile, old |-> NoDiskFile, pc |-> "before",
          new |-> <<>>, seen |-> NotRead, during |-> FALSE]

IoInit ==
    \E fn \in Writers, f \in {NoDiskFile} \cup {WholeFile(c) : c \in Contents} :
        io = [fn |-> fn, file |-> f, old |-> f, pc |-> "before",
              new |-> <<>>, seen |-> NotRead, during |-> FALSE]

\* open(path, "w") / the parquet writer's output stream: the file is there
\* and empty
WriteOpen(f, new) == [exists |-> TRUE, pieces |-> <<>>, whole |-> FALSE]

\* the next piece of new reaches the file
WritePiece(f, new) == [f EXCEPT !.pieces = Append(@, new[Len(@) + 1])]

\* the close: everything is in the file
WriteClose(f, new) == WholeFile(new)

\* The writer begins: path.write_text(...) / df.to_parquet(p)
BeginWrite(new) ==
    /\ io.pc = "before"
    /\ LET f == WriteOpen(io.file, new)
       IN  io' = [io EXCEPT !.pc = "open", !.new = new, !.file = f]
    /\ UNCHANGED notIo

ContinueWrite ==
    /\ io.pc = "open"
    /\ Len(io.file.pieces) < Len(io.new)
    /\ io' = [io EXCEPT !.file = WritePiece(io.file, io.new)]
    /\ UNCHANGED notIo

EndWrite ==
    /\ io.pc = "open"
    /\ Len(io.file.pieces) = Len(io.new)
    /\ io' = [io EXCEPT !.pc = "closed", !.file = WriteClose(io.file, io.new)]
    /\ UNCHANGED notIo

\* The reader (load_cache, load_parquet_known, CompoundDb.load) reads the
\* file as it is at that moment.
ReadFile ==
    /\ io.seen = NotRead
    /\ io' = [io EXCEPT !.seen = io.file, !.during = (io.pc = "open")]
    /\ UNCHANGED notIo

IoNext ==
    \/ \E new \in Contents : BeginWrite(new)
    \/ ContinueWrite
    \/ EndWrite
    \/ ReadFile

(***************************************************************************)
(* build_compound_db applied to a frame of call records                    *)
(***************************************************************************)
\* Records of a raw frame: the same CID as an int, as a float and as a
\* string ending in ".0", another CID, no CID, and a failure with a CID
BuildRecords ==
    {OkRec(<<"a">>, I(<<"7">>), PropsFull),
     OkRec(<<"A">>, F(<<"7">>), PropsBare),
     OkRec(<<"b">>, S(<<"7", ".", "0">>), PropsNoSmiles),
     OkRec(<<"o">>, S(<<"9">>), PropsBare),
     OkRec(<<"e">>, None, PropsBare),
     FailedRec(<<"n">>, "failed-no-props", S(<<"7">>))}

BuildLists == UNION {[1..n -> BuildRecords] : n \in 0..MaxRows}

\* df_db = build_compound_db(df_raw), in a builder run of its own
BuildCall(records) ==
    /\ arg.fn = "none"
    /\ resolve.pc = "idle"
    /\ arg' = [fn |-> "build_compound_db", df_raw |-> MakeFrame(records)]
    /\ out' = [stage |-> 1, table |-> build_compound_db(MakeFrame(records))]
    /\ UNCHANGED notFun

\* A canonical table is written by a builder run or by a resolve call.
CanonicalNext ==
    \/ /\ arg.fn = "none" /\ resolve.pc = "idle"
       /\ \E records \in BuildLists : BuildCall(records)
    \/ arg.fn = "none" /\ DbNext

(***************************************************************************)
(* optimize_medium                                                         *)
(*                                                                         *)
(* Masses are whole g/mol and quantities exact fractions [num, den]; an    *)
(* element symbol is the string of its characters.                         *)
(***************************************************************************)
\* requirements of one input, and the largest entry of a solution
MaxElements == 2
MaxDose == 4

UpperChars == {"A", "H", "N", "O"}
LowerChars == {"a", "b", "e", "n", "o"}

\* utils.molar_mass: the mass chempy gives, 0.0 when it cannot parse
molar_mass(formula) ==
    CASE formula = <<"N">> -> 14
      [] formula = <<"O">> -> 16
      [] formula = <<"H">> -> 1
      [] OTHER -> 0

RECURSIVE DigitRun(_)
\* the digits s begins with
DigitRun(s) ==
    IF s # <<>> /\ Head(s) \in Digits THEN <<Head(s)>> \o DigitRun(Tail(s)) ELSE <<>>

RECURSIVE FormulaTokens(_)
\* re.findall(r"([A-Z][a-z]?)(\d*)", s)
FormulaTokens(s) ==
    IF s = <<>> THEN <<>>
    ELSE IF Head(s) \notin UpperChars THEN FormulaTokens(Tail(s))
    ELSE LET element == IF Len(s) >= 2 /\ s[2] \in LowerChars
                        THEN SubSeq(s, 1, 2) ELSE SubSeq(s, 1, 1)
             rest == SubSeq(s, Len(element) + 1, Len(s))
             count_str == DigitRun(rest)
         IN  <<[element |-> element, count_str |-> count_str]>>
             \o FormulaTokens(SubSeq(rest, Len(count_str) + 1, Len(rest)))

\* utils.elemental_counts, for one of the requested elements: each match
\* of the element assigns counts[element], so the last one stays
elemental_counts(molecular_formula, element) ==
    LET matches == FormulaTokens(molecular_formula)
        mine == {k \in 1..Len(matches) : matches[k].element = element}
        last == CHOOSE k \in mine : \A j \in mine : j <= k
    IN  IF mine = {} THEN 0
        ELSE IF matches[last].count_str = <<>> THEN 1
        ELSE StrToInt(matches[last].count_str)

\* A requirement row: (element, required_mass, required_mol)
RequirementRow(element, req, max_dry_biomass) ==
    [element |-> element,
     required_mass |-> [num |-> max_dry_biomass * req.excess_factor,
                        den |-> req.reference_yield],
     required_mol |-> [num |-> max_dry_biomass * req.excess_factor,
                       den |-> req.reference_yield * molar_mass(element)]]

\* Every requirement counts, whatever its yield and excess factor
Skipped_Never(req) == FALSE

\* if req.reference_yield_g_cdw_per_g <= 0 or req.excess_factor <= 0: continue
Skipped(req) == req.reference_yield <= 0 \/ req.excess_factor <= 0

\* the requirements the loop keeps, in the order of the dict
ValidRequirements(required_elements) ==
    LET Kept(e) == ~Skipped(e.req)
    IN  SelectSeq(required_elements, Kept)

RECURSIVE Dot(_, _)
\* (row * x).sum()
Dot(row, x) ==
    IF row = <<>> THEN 0 ELSE Head(row) * Head(x) + Dot(Tail(row), Tail(x))

\* a_eq: one row for each requirement, one column for each compound
EqualityMatrix(compounds, elements) ==
    AsList([i \in 1..Len(elements) |->
        AsList([j \in 1..Len(compounds) |->
            elemental_counts(PyStr(compounds[j].formula0), elements[i])])])

\* x satisfies a_eq x = b_eq
Solves(a_eq, b_eq, x) ==
    \A i \in 1..Len(a_eq) : b_eq[i].den * Dot(a_eq[i], x) = b_eq[i].num

\* What solve_linear_program may return: a failure (linprog found the
\* system infeasible, or gave up), or a solution within the bounds. A
\* requirement no compound can meet leaves the failure only.
SolveOutcomes(a_eq, b_eq, num_variables, lower_bound) ==
    {[success |-> FALSE, x |-> <<>>]}
    \cup {[success |-> TRUE, x |-> AsList(x)] :
            x \in {y \in [1..num_variables -> lower_bound..MaxDose] : Solves(a_eq, b_eq, y)}}

\* The text of an analysis, by what it states: the number of constraints,
\* the elements it names as missing, and whether it says that all
\* required elements were found but the constraints could not be satisfied
AnalysisText(num_constraints, missing_elements) ==
    [present |-> TRUE, text |-> "analysis", constraints |-> num_constraints,
     missing |-> missing_elements, all_found |-> missing_elements = <<>>]

\* An analysis that looks at the first compound only
analyze_unsolvable_system_FirstCompound(a_eq, elements) ==
    LET Missing(i) == a_eq[i] = <<>> \/ a_eq[i][1] = 0
        idx == SelectSeq([i \in 1..Len(elements) |-> i], Missing)
    IN  AnalysisText(Len(a_eq), AsList([k \in 1..Len(idx) |-> elements[idx[k]]]))

\* analyze_unsolvable_system: the number of constraints and the elements
\* whose column sums to 0
analyze_unsolvable_system(a_eq, elements) ==
    LET Missing(i) == Dot(a_eq[i], [j \in 1..Len(a_eq[i]) |-> 1]) = 0
        idx == SelectSeq([i \in 1..Len(elements) |-> i], Missing)
    IN  AnalysisText(Len(a_eq), AsList([k \in 1..Len(idx) |-> elements[idx[k]]]))

NoDiagnostics ==
    [present |-> FALSE, text |-> "", constraints |-> 0, missing |-> <<>>,
     all_found |-> FALSE]
Diagnostics(text) ==
    [present |-> TRUE, text |-> text, constraints |-> 0, missing |-> <<>>,
     all_found |-> FALSE]

\* A failure that carries no diagnostics
FailResult_NoDiagnostics(message, diagnostics) ==
    [success |-> FALSE, message |-> message, compound_doses |-> <<>>,
     element_matches |-> <<>>, diagnostics |-> NoDiagnostics]

\* MediumOptimizationResult(success=False, ...)
FailResult(message, diagnostics) ==
    [success |-> FALSE, message |-> message, compound_doses |-> <<>>,
     element_matches |-> <<>>, diagnostics |-> diagnostics]

RECURSIVE SortByMass(_)
\* list.sort(key=mass, reverse=True): stable, the largest mass first
SortByMass(doses) ==
    IF doses = <<>> THEN <<>>
    ELSE LET k == CHOOSE i \in 1..Len(doses) :
                      /\ \A j \in 1..Len(doses) : doses[j].mass <= doses[i].mass
                      /\ \A j \in 1..(i - 1) : doses[j].mass < doses[i].mass
         IN  <<doses[k]>> \o SortByMass(SubSeq(doses, 1, k - 1) \o SubSeq(doses, k + 1, Len(doses)))

\* The doses in the order of the compounds, the zero ones with them
CompoundDoses_AllUnsorted(compounds, x) ==
    LET Mass(j) == IF compounds[j].mw.k = "float" THEN x[j] * compounds[j].mw.n ELSE 0
        Dosed(j) == compounds[j].mw.k = "float" /\ Mass(j) >= 0
        idx == SelectSeq([j \in 1..Len(compounds) |-> j], Dosed)
    IN  AsList([k \in 1..Len(idx) |->
            [cid |-> PyStr(compounds[idx[k]].cid), mass |-> Mass(idx[k]),
             mol |-> x[idx[k]]]])

\* the doses: the compounds whose mass x * MW is finite and positive
CompoundDoses(compounds, x) ==
    LET Mass(j) == IF compounds[j].mw.k = "float" THEN x[j] * compounds[j].mw.n ELSE 0
        Dosed(j) == compounds[j].mw.k = "float" /\ Mass(j) > 0
        idx == SelectSeq([j \in 1..Len(compounds) |-> j], Dosed)
    IN  SortByMass(AsList([k \in 1..Len(idx) |->
            [cid |-> PyStr(compounds[idx[k]].cid), mass |-> Mass(idx[k]),
             mol |-> x[idx[k]]]]))

\* the element matches, one for each requirement
ElementMatches(rows, a_eq, x) ==
    AsList([i \in 1..Len(rows) |->
        [element |-> rows[i].element,
         required_mass |-> rows[i].required_mass,
         obtained_mass |-> Dot(a_eq[i], x) * molar_mass(rows[i].element)]])

NoResult ==
    [success |-> FALSE, message |-> "no result", compound_doses |-> <<>>,
     element_matches |-> <<>>, diagnostics |-> NoDiagnostics]

\*   pc: "idle" | "requirements" (the compounds are resolved) | "solve"
\*       (the system is built) | "returned" | "raised"
\*   steps: the steps the call has taken; compounds: compounds_df;
\*   rows: requirement_rows; x: solution.x; lower_bound: that of the
\*   solver_config; result: what it returned; exc: what it raised
NoOpt ==
    [pc |-> "idle", cids |-> <<>>, max_dry_biomass |-> 0, required_elements |-> <<>>,
     lower_bound |-> 0, steps |-> <<>>, compounds |-> <<>>, rows |-> <<>>,
     a_eq |-> <<>>, solved |-> FALSE, x |-> <<>>, result |-> NoResult, exc |-> ""]

OptIdle == opt = NoOpt

\* the tables of the repository: two compounds, one of them a hydrate
\* whose anhydrous columns are empty
RowN2 ==
    [cid |-> S(<<"7">>), name |-> S(<<"a">>), formula |-> S(<<"N", "2">>),
     formula0 |-> S(<<"N", "2">>), mw |-> Num(28), mw0 |-> Num(28)]
RowN8O7 ==
    [cid |-> S(<<"9">>), name |-> S(<<"A">>),
     formula |-> S(<<"N", "8", "O", "7", ".", "2", "H", "2", "O">>),
     formula0 |-> S(<<>>), mw |-> Num(260), mw0 |-> NaN]

\* the same compound, its molar mass unknown
RowN2NoMass == [RowN2 EXCEPT !.mw = NaN, !.mw0 = NaN]
\* nitramide, whose formula names nitrogen twice
RowNH2NO2 ==
    [cid |-> S(<<"8">>), name |-> S(<<"n">>),
     formula |-> S(<<"N", "H", "2", "N", "O", "2">>),
     formula0 |-> S(<<"N", "H", "2", "N", "O", "2">>), mw |-> Num(62), mw0 |-> Num(62)]

OptInit ==
    /\ store \in {[cache |-> c, packaged |-> NoTable] :
                    c \in {NoTable, TableFile(<<RowN8O7, RowN2>>),
                           TableFile(<<RowN8O7, RowN2NoMass, RowNH2NO2>>)}}
    /\ resolve = NoResolve
    /\ opt = NoOpt

\* the inputs: identifiers, of which "8" has a row in one table only; requirements that
\* count and that do not; an element no compound has (H, after the water
\* is taken off) and a symbol molar_mass cannot parse (A)
OptCids == {<<"7">>, <<"9">>, <<"8">>}
OptCidLists == UNION {[1..n -> {S(c) : c \in OptCids}] : n \in 0..MaxWanted}
OptElements == {<<"N">>, <<"O">>, <<"H">>, <<"A">>}
OptRequirements ==
    {[reference_yield |-> 1, excess_factor |-> 1],
     [reference_yield |-> 0, excess_factor |-> 1],
     [reference_yield |-> 1, excess_factor |-> -1]}
\* max_dry_biomass_g_per_l: 112 g/L is 8 mol of N and 7 mol of O
OptBiomasses == {112, 224}
\* solver_config.lower_bound: the default, and one that lets a quantity be
\* negative
OptLowerBounds == {0, -1}

\* required_elements, a dict: its items in order, the keys distinct
RequiredElements ==
    {d \in UNION {[1..n -> [element : OptElements, req : OptRequirements]] :
                     n \in 0..MaxElements} :
        \A i, j \in 1..Len(d) : i < j => d[i].element # d[j].element}

\* Lines 22-32: the compounds are resolved, without fetching.
OptResolve(cids, max_dry_biomass, required_elements, lower_bound) ==
    /\ opt.pc = "idle"
    /\ resolve.pc = "idle"
    /\ Begin([NoResolve EXCEPT !.caller = "optimize_medium", !.mode = "sync",
                               !.cids = cids, !.update_cache = TRUE], FALSE)
    /\ LET o == [opt EXCEPT !.cids = cids, !.max_dry_biomass = max_dry_biomass, !.lower_bound = lower_bound,
                            !.required_elements = required_elements,
                            !.steps = <<"resolve">>]
       IN  opt' =
             IF resolve'.pc = "raised"
             THEN [o EXCEPT !.pc = "raised", !.exc = resolve'.exc]
             ELSE IF resolve'.result = <<>>
             THEN [o EXCEPT !.pc = "returned",
                            !.result = FailResult("no compounds found for provided cids",
                                Diagnostics("repository returned an empty dataframe"))]
             ELSE [o EXCEPT !.pc = "requirements",
                            !.compounds = ensure_db_schema(resolve'.result)]
    /\ UNCHANGED notOpt

\* Lines 34-78: the requirements are built, then the system. A kept
\* requirement whose element has molar mass 0.0 divides by zero.
OptRequire ==
    /\ opt.pc = "requirements"
    /\ LET kept == ValidRequirements(opt.required_elements)
           Unparsed(e) == molar_mass(e.element) = 0
           rows == AsList([i \in 1..Len(kept) |->
                      RequirementRow(kept[i].element, kept[i].req, opt.max_dry_biomass)])
           elements == AsList([i \in 1..Len(kept) |-> kept[i].element])
           o == [opt EXCEPT !.steps = Append(@, "requirements")]
       IN  opt' =
             IF SelectSeq(kept, Unparsed) # <<>>
             THEN [o EXCEPT !.pc = "raised", !.exc = "ZeroDivisionError"]
             ELSE IF rows = <<>>
             THEN [o EXCEPT !.pc = "returned",
                            !.result = FailResult("no valid element requirements provided",
                                Diagnostics("all elements had non-positive yield or excess factor"))]
             ELSE [o EXCEPT !.pc = "solve", !.rows = rows,
                            !.a_eq = EqualityMatrix(opt.compounds, elements)]
    /\ UNCHANGED <<dbVars, notOpt>>

\* Lines 80-143: solve_linear_program returns; the result is made of it.
OptSolve ==
    /\ opt.pc = "solve"
    /\ LET b_eq == AsList([i \in 1..Len(opt.rows) |-> opt.rows[i].required_mol])
           elements == AsList([i \in 1..Len(opt.rows) |-> opt.rows[i].element])
           o == [opt EXCEPT !.steps = Append(@, "solve"), !.pc = "returned"]
       IN  \E solution \in SolveOutcomes(opt.a_eq, b_eq, Len(opt.compounds), opt.lower_bound) :
             opt' =
               IF ~solution.success
               THEN [o EXCEPT !.result = FailResult("optimization could not be solved",
                                  analyze_unsolvable_system(opt.a_eq, elements))]
               ELSE [o EXCEPT !.solved = TRUE, !.x = solution.x,
                        !.result =
                          [success |-> TRUE, message |-> "optimal",
                           compound_doses |-> CompoundDoses(opt.compounds, solution.x),
                           element_matches |-> ElementMatches(opt.rows, opt.a_eq, solution.x),
                           diagnostics |-> NoDiagnostics]]
    /\ UNCHANGED <<dbVars, notOpt>>

OptNext ==
    \/ /\ opt.pc = "idle"
       /\ \E cids \in OptCidLists, max_dry_biomass \in OptBiomasses,
             required_elements \in RequiredElements, lower_bound \in OptLowerBounds :
             OptResolve(cids, max_dry_biomass, required_elements, lower_bound)
    \/ OptRequire
    \/ OptSolve

(***************************************************************************)
(* split_hydrate_formula applied to formulas                               *)
(***************************************************************************)
HydrateSeparators == {".", Bullet, MiddleDot}
Blanks == {<<>>, <<" ">>}
\* the water of a hydrate in upper and in mixed case
Waters == {<<"H", "2", "O">>, <<"H", "2", "o">>}
SplitBases == {<<"N", "2">>, <<"N", "a">>, <<"H", "2", "O">>}
WaterCounts == {<<>>, <<"1">>, <<"2">>, <<"1", "0">>}

\* base + separator + n + H2O, blanks around n
HydrateInputs ==
    {[fn |-> "split_hydrate_formula", hydrate |-> TRUE, base |-> b, n |-> n,
      formula |-> b \o b1 \o <<sep>> \o b2 \o n \o b3 \o w] :
        b \in SplitBases, sep \in HydrateSeparators, n \in WaterCounts,
        w \in Waters, b1 \in Blanks, b2 \in Blanks, b3 \in Blanks}

\* formulas without a separator
PlainInputs ==
    {[fn |-> "split_hydrate_formula", hydrate |-> FALSE, base |-> f, n |-> <<>>,
      formula |-> f] :
        f \in SplitBases \cup {<<>>, <<"A">>, <<"N", "8", "O", "7">>,
                               <<"N", "2", "H", "2", "O">>, <<"N", "o", "n", "e">>}}

SplitInit ==
    /\ arg \in HydrateInputs \cup PlainInputs
    /\ out = [stage |-> 0]

\* base, water_count = split_hydrate_formula(formula)
SplitCall ==
    /\ arg.fn = "split_hydrate_formula"
    /\ out.stage = 0
    /\ LET r == split_hydrate_formula(arg.formula)
       IN  out' = [stage |-> 1, base |-> r.base, water |-> r.water]
    /\ UNCHANGED arg
    /\ UNCHANGED notFun

SplitNext == SplitCall

(***************************************************************************)
(* step_04_build_parquet.split_hydrate_formula applied to formulas         *)
(***************************************************************************)
\* formula.replace("·", "•")
MiddleDotToBullet(s) ==
    [i \in 1..Len(s) |-> IF s[i] = MiddleDot THEN Bullet ELSE s[i]]

\* The count the builder reads from the text right of the bullet:
\* re.search(r"^\s*(\d+)\s*H2O\s*$", right, re.IGNORECASE) gives the
\* digits, re.fullmatch(r"H2O", right, re.IGNORECASE) gives 1, else 0
BuilderWaterCount(right) ==
    LET digits == DigitRun(LStrip(right))
        rest == SubSeq(LStrip(right), Len(digits) + 1, Len(LStrip(right)))
    IN  IF digits # <<>> /\ Lower(Strip(rest)) = <<"h", "2", "o">> THEN StrToInt(digits)
        ELSE IF Lower(right) = <<"h", "2", "o">> THEN 1
        ELSE 0

\* step_04_build_parquet.split_hydrate_formula
builder_split_hydrate_formula(formula) ==
    LET s == MiddleDotToBullet(formula)
        pieces == SplitOn(s, Bullet)
        left == Strip(Head(pieces))
        right == Strip(SubSeq(s, Len(Head(pieces)) + 2, Len(s)))
    IN  IF formula = <<>> THEN [base |-> <<>>, water |-> 0]
        ELSE IF Len(pieces) = 1 THEN [base |-> Strip(s), water |-> 0]
        ELSE [base |-> left, water |-> BuilderWaterCount(right)]

BuilderSplitInit ==
    /\ \E a \in HydrateInputs \cup PlainInputs :
          arg = [a EXCEPT !.fn = "builder.split_hydrate_formula"]
    /\ out = [stage |-> 0]

\* base, n = split_hydrate_formula(formula) in compute_minus_h2o
BuilderSplitCall ==
    /\ arg.fn = "builder.split_hydrate_formula"
    /\ out.stage = 0
    /\ LET r == builder_split_hydrate_formula(arg.formula)
       IN  out' = [stage |-> 1, base |-> r.base, water |-> r.water]
    /\ UNCHANGED arg
    /\ UNCHANGED notFun

BuilderSplitNext == BuilderSplitCall

(***************************************************************************)
(* elemental_counts applied to formulas                                    *)
(***************************************************************************)
\* element tokens of one formula
MaxTokens == 2

CountSymbols == {<<"N">>, <<"O">>, <<"H">>, <<"N", "a">>}
CountTokens ==
    {<<"N">>, <<"N", "2">>, <<"O">>, <<"O", "7">>, <<"H", "2">>, <<"N", "a">>}

RECURSIVE Flatten(_)
Flatten(ss) == IF ss = <<>> THEN <<>> ELSE Head(ss) \o Flatten(Tail(ss))

CountFormulas == {Flatten(ts) : ts \in UNION {[1..n -> CountTokens] : n \in 0..MaxTokens}}
CountElementLists == UNION {[1..n -> CountSymbols] : n \in 1..MaxElements}

\* utils.elemental_counts: the dict it returns, a key for each element of
\* elements
elemental_counts_dict(molecular_formula, elements) ==
    [element \in {elements[i] : i \in 1..Len(elements)} |->
        elemental_counts(molecular_formula, element)]

CountsInit ==
    /\ \E f \in CountFormulas, es \in CountElementLists :
          arg = [fn |-> "elemental_counts", formula |-> f, elements |-> es]
    /\ out = [stage |-> 0]

\* counts = elemental_counts(formula, elements)
CountsCall ==
    /\ arg.fn = "elemental_counts"
    /\ out.stage = 0
    /\ out' = [stage |-> 1, counts |-> elemental_counts_dict(arg.formula, arg.elements)]
    /\ UNCHANGED arg
    /\ UNCHANGED notFun

CountsNext == CountsCall

(***************************************************************************)
(* Specifications                                                          *)
(***************************************************************************)
SpecFetchInit == FetchInit /\ CallIdle /\ FunIdle /\ PipeIdle /\ DbIdle /\ IoIdle /\ OptIdle
SpecFetch == SpecFetchInit /\ [][FetchNext]_vars

\* The event loop runs every coroutine that is ready, every request is
\* answered and every sleep ends: a step that can be taken is taken.
SpecFetchLive == SpecFetchInit /\ [][FetchNext]_vars /\ WF_vars(FetchNext)

SpecRemoteCallInit == CallInit /\ FetchIdle /\ FunIdle /\ PipeIdle /\ DbIdle /\ IoIdle /\ OptIdle
SpecRemoteCall == SpecRemoteCallInit /\ [][CallNext]_vars

SpecMergeInit == MergeInit /\ CallIdle /\ FetchIdle /\ PipeIdle /\ DbIdle /\ IoIdle /\ OptIdle
SpecMerge == SpecMergeInit /\ [][MergeNext]_vars

SpecFilterInit == FilterInit /\ CallIdle /\ FetchIdle /\ PipeIdle /\ DbIdle /\ IoIdle /\ OptIdle
SpecFilter == SpecFilterInit /\ [][FilterNext]_vars

SpecPipelineInit == PipeInit /\ CallIdle /\ FetchIdle /\ FunIdle /\ DbIdle /\ IoIdle /\ OptIdle
SpecPipeline == SpecPipelineInit /\ [][PipeNext]_vars

SpecResolveInit == DbInit /\ CallIdle /\ FetchIdle /\ FunIdle /\ PipeIdle /\ IoIdle /\ OptIdle
SpecResolve == SpecResolveInit /\ [][DbNext]_vars

SpecSessionInit == SessionInit /\ CallIdle /\ FetchIdle /\ FunIdle /\ PipeIdle /\ IoIdle /\ OptIdle
SpecSession == SpecSessionInit /\ [][SessionNext]_vars

SpecCountsInit == CountsInit /\ CallIdle /\ FetchIdle /\ PipeIdle /\ DbIdle /\ IoIdle /\ OptIdle
SpecCounts == SpecCountsInit /\ [][CountsNext]_vars

SpecBuilderSplitInit == BuilderSplitInit /\ CallIdle /\ FetchIdle /\ PipeIdle /\ DbIdle /\ IoIdle /\ OptIdle
SpecBuilderSplit == SpecBuilderSplitInit /\ [][BuilderSplitNext]_vars

SpecRebuildInit == RebuildInit /\ CallIdle /\ FetchIdle /\ FunIdle /\ DbIdle /\ IoIdle /\ OptIdle
SpecRebuild == SpecRebuildInit /\ [][PipeNext]_vars

SpecCanonicalInit == DbInit /\ CallIdle /\ FetchIdle /\ FunIdle /\ PipeIdle /\ IoIdle /\ OptIdle
SpecCanonical == SpecCanonicalInit /\ [][CanonicalNext]_vars

SpecOptimizeInit == OptInit /\ CallIdle /\ FetchIdle /\ FunIdle /\ PipeIdle /\ IoIdle
SpecOptimize == SpecOptimizeInit /\ [][OptNext]_vars

SpecSplitInit == SplitInit /\ CallIdle /\ FetchIdle /\ PipeIdle /\ DbIdle /\ IoIdle /\ OptIdle
SpecSplit == SpecSplitInit /\ [][SplitNext]_vars

SpecWriteInit == IoInit /\ CallIdle /\ FetchIdle /\ FunIdle /\ PipeIdle /\ DbIdle /\ OptIdle
SpecWrite == SpecWriteInit /\ [][IoNext]_vars

(***************************************************************************)
(* Claims about the batch fetch and the remote call                        *)
(***************************************************************************)
\* How many records of rs carry the query name q
CountQuery(rs, q) == Cardinality({k \in 1..Len(rs) : rs[k].qn = S(q)})

\* How many of the submitted names trim to q
CountName(q) == Cardinality({i \in 1..Len(names) : Strip(names[i]) = q})

\* C1: whatever the remote answers and in whatever order the runners end,
\* the batch returns, and it returns exactly one record per submitted name,
\* each carrying the trimmed name as its Query Name.
C1_OneOutcomePerName ==
    /\ batch # "raised"
    /\ batch = "returned" =>
        /\ Len(results) = Len(names)
        /\ \A i \in 1..Len(names) :
              CountQuery(results, Strip(names[i])) = CountName(Strip(names[i]))

\* C9: at every moment at most max_concurrent_requests names are inside
\* _fetch_record_for_name (in either remote call, asleep or not), and a
\* queued name enters only when a permit is free.
C9_BoundedInFlight ==
    /\ [](Cardinality(InFlight) <= MaxConcurrentRequests)
    /\ [][\A i \in Tasks :
            (task[i].pc = "queued" /\ task'[i].pc # "queued")
                => Cardinality(InFlight) < MaxConcurrentRequests]_vars

\* C9 happens: every permit is taken, by a lookup asleep in the backoff of
\* its second remote call, while another name waits.
C9_Witness ==
    /\ Cardinality(InFlight) = MaxConcurrentRequests
    /\ \E i \in Tasks : task[i].pc = "queued"
    /\ \E j \in InFlight : task[j].pc = "props" /\ task[j].call.pc = "sleep"

Retryable(e) ==
    \/ e.kind = "status" /\ e.status \in RetryStatuses
    \/ e.kind = "error"

\* C10: one remote call issues at most max_retries requests; a further
\* request follows only a 429, a 503 or a transport error/timeout; a 200
\* ends the call with the body; any other status ends it with None and
\* without a sleep; the call never raises, and returns None once
\* max_retries retryable failures are behind it.
C10_RemoteCallContract ==
    /\ Len(rcLog) <= rc.max
    /\ \A k \in 1..Len(rcLog) :
          /\ k < Len(rcLog) => Retryable(rcLog[k])
          /\ rcLog[k].status = 200 => rc.pc = "body"
          /\ (rcLog[k].kind = "status" /\ rcLog[k].status \notin RetryStatuses)
                => rc.pc = "none" /\ Len(rc.sleeps) = k - 1
    /\ rc.pc # "raised"
    /\ (Len(rcLog) = rc.max /\ rc.pc # "sleep" /\ Retryable(rcLog[Len(rcLog)]))
          => rc.pc = "none"

RECURSIVE Pow2(_)
Pow2(n) == IF n = 0 THEN 1 ELSE 2 * Pow2(n - 1)

Min(a, b) == IF a < b THEN a ELSE b

\* C11: within one remote call the k-th backoff sleep lasts
\* min(initial_backoff_seconds * 2^(k-1), 300) seconds, so that no sleep
\* exceeds the 300-second ceiling whatever initial_backoff_seconds is.
C11_BackoffSchedule ==
    \A k \in 1..Len(rc.sleeps) :
        /\ rc.sleeps[k] = Min(rc.initial * Pow2(k - 1), BackoffCeiling)
        /\ rc.sleeps[k] <= BackoffCeiling

(***************************************************************************)
(* Claims about merge_cache                                                *)
(***************************************************************************)
\* C5: merging the same new outcomes a second time changes nothing, in
\* the frame returned and in the file written.
C5_MergeIdempotent ==
    out.stage = 2 =>
        /\ out.df = out.prevDf
        /\ out.file.exists /\ out.prevFile.exists
        /\ out.file = out.prevFile

\* C5 happens: the second merge had a record of the cache and an equally
\* scored new record of the same query to choose from.
C5_Witness ==
    /\ out.stage = 2
    /\ \E i, j \in 1..Len(out.all) :
          /\ i <= Len(out.prevDf) /\ j > Len(out.prevDf)
          /\ QKey(out.all[i]) = QKey(out.all[j])
          /\ ScoreRow(out.all[i]) = ScoreRow(out.all[j])

\* the normalized queries of the rows of a frame
QKeys(df) == {QKey(df[i]) : i \in 1..Len(df)}

\* C6: the queries load_cache reads back after a merge_cache call include
\* those it read before the call and those of the new outcomes, and every
\* call writes the file with the whole merged frame.
C6_CoverageNeverShrinks ==
    out.stage >= 1 =>
        /\ out.file = File(SaveCache(out.df))
        /\ LoadCache(out.prevFile).attempted \subseteq LoadCache(out.file).attempted
        /\ QKeys(arg.new) \subseteq LoadCache(out.file).attempted

\* C7: the merged frame has exactly one row for each normalized query of
\* the cached and new rows; no cached or new row of that query scores
\* higher; a query that has an ok row keeps an ok row.
C7_OneBestRecordPerQuery ==
    out.stage >= 1 =>
        /\ \A i, j \in 1..Len(out.df) : QKey(out.df[i]) = QKey(out.df[j]) => i = j
        /\ QKeys(out.df) = QKeys(out.prevDf) \cup QKeys(arg.new)
        /\ \A k \in 1..Len(out.df) :
              \A rows \in {out.prevDf, arg.new} : \A i \in 1..Len(rows) :
                  QKey(rows[i]) = QKey(out.df[k]) =>
                      /\ ScoreRow(rows[i]) <= ScoreRow(out.df[k])
                      /\ IsOk(rows[i]) => IsOk(out.df[k])

\* C7 happens: a query had an ok row in the cache and a later row that is
\* not ok among the new outcomes.
C7_Witness ==
    /\ out.stage = 1
    /\ \E i \in 1..Len(out.prevDf), j \in 1..Len(arg.new) :
          /\ QKey(out.prevDf[i]) = QKey(arg.new[j])
          /\ IsOk(out.prevDf[i]) /\ ~IsOk(arg.new[j])

(***************************************************************************)
(* Claims about filter_names_to_fetch                                      *)
(***************************************************************************)
\* the positions of the candidates the claim says are returned
Wanted ==
    {i \in 1..Len(arg.names) :
        LET s == Strip(arg.names[i])
        IN  /\ s # <<>>
            /\ \A j \in 1..(i - 1) : Lower(Strip(arg.names[j])) # Lower(s)
            /\ Lower(s) \notin arg.attempted_queries_lower
            /\ Lower(s) \notin arg.known_names_lower
            /\ ~(IsDigit(s) /\ s \in arg.known_cids_str)}

\* the k-th smallest position of a set of positions
Kth(ps, k) == CHOOSE i \in ps : Cardinality({j \in ps : j < i}) = k - 1

\* C8: the names returned are the trimmed candidates at the wanted
\* positions, in their order; none is attempted already, and no two are
\* the same but for case.
C8_FilterExact ==
    (arg.fn = "filter_names_to_fetch" /\ out.stage = 1) =>
        /\ Len(out.names) = Cardinality(Wanted)
        /\ \A k \in 1..Len(out.names) : out.names[k] = Strip(arg.names[Kth(Wanted, k)])
        /\ \A k \in 1..Len(out.names) : Lower(out.names[k]) \notin arg.attempted_queries_lower
        /\ \A k, l \in 1..Len(out.names) :
              Lower(out.names[k]) = Lower(out.names[l]) => k = l

\* C8 happens: a call whose candidates repeat a name in another case, with
\* an attempted candidate left out and a name returned.
C8_Witness ==
    /\ arg.fn = "filter_names_to_fetch" /\ out.stage = 1
    /\ \E i, j \in 1..Len(arg.names) :
          i < j /\ arg.names[i] # arg.names[j]
                /\ Lower(Strip(arg.names[i])) = Lower(Strip(arg.names[j]))
    /\ Len(out.names) >= 1
    /\ \E i \in 1..Len(arg.names) :
          Lower(Strip(arg.names[i])) \in arg.attempted_queries_lower

(***************************************************************************)
(* Claims about the pipeline                                               *)
(***************************************************************************)
\* the normalized queries that have an outcome in the cache file
FileQueries(file) ==
    {Lower(Strip(PyStr(file.recs[i].qn))) :
        i \in {j \in 1..Len(file.recs) : file.recs[j].qn.k = "str"}}

\* C2: no name a run submits to the remote database has, trimmed and
\* lower-cased, an outcome in the cache file that the completed runs
\* before it wrote.
C2_NeverSubmittedAgain ==
    run.pc = "fetch" =>
        \A i \in 1..Len(run.toFetch) :
            Lower(Strip(run.toFetch[i])) \notin FileQueries(cacheFile)

(***************************************************************************)
(* Claims about the resolve path                                           *)
(***************************************************************************)
\* C3: a call whose fetch_missing is false makes no call of fetch_by_cid,
\* and the call optimize_medium makes is one of these.
C3_NoFetchUnlessAsked ==
    /\ ~resolve.fetch_missing => resolve.pc # "fetching" /\ resolve.calls = <<>>
    /\ resolve.caller = "optimize_medium" =>
          ~resolve.fetch_missing /\ resolve.pc # "fetching" /\ resolve.calls = <<>>

\* C3 happens: optimize_medium has resolved identifiers of which one is not
\* in the table it loaded.
C3_Witness ==
    /\ resolve.caller = "optimize_medium"
    /\ resolve.pc = "returned"
    /\ resolve.df # <<>>
    /\ \E k \in 1..Len(resolve.wanted) :
          \A i \in 1..Len(resolve.df) : resolve.df[i].cid.v # resolve.wanted[k]

\* the position of an identifier in the requested list
RequestPosition(cid) ==
    CHOOSE k \in 1..Len(resolve.wanted) :
        resolve.wanted[k] = cid /\ \A j \in 1..(k - 1) : resolve.wanted[j] # cid

\* C4: a call whose fetch_missing is false, having loaded a table, returns
\* and does not raise; what it returns are the rows of the table whose
\* identifier is requested, each as often as the table has it, in the
\* order of their identifiers in the request.
C4_ResolveExact ==
    (resolve.pc \in {"returned", "raised"} /\ ~resolve.fetch_missing /\ resolve.loaded) =>
        /\ resolve.pc = "returned"
        /\ \A i \in 1..Len(resolve.result) :
              \E k \in 1..Len(resolve.wanted) : resolve.wanted[k] = resolve.result[i].cid.v
        /\ \A i \in 1..Len(resolve.df) :
              (\E k \in 1..Len(resolve.wanted) : resolve.wanted[k] = resolve.df[i].cid.v)
              => Cardinality({j \in 1..Len(resolve.result) : resolve.result[j] = resolve.df[i]})
                 = Cardinality({j \in 1..Len(resolve.df) : resolve.df[j] = resolve.df[i]})
        /\ Len(resolve.result) = Len(HitOf(resolve.df, resolve.wanted))
        /\ \A i, j \in 1..Len(resolve.result) :
              i < j => RequestPosition(resolve.result[i].cid.v)
                       <= RequestPosition(resolve.result[j].cid.v)

\* a response that is no success: a status other than 200, a transport
\* error, a timeout, a body that does not decode, an empty property list
NonSuccess(r) == r.status # 200 \/ r.kind # "json" \/ r.body.props = <<>>

LookupExceptions == {"ClientError", "TimeoutError", "JSONDecodeError"}

\* C12: fetch_by_cid returns None and raises nothing for every remote
\* non-success, and the resolve call it serves takes the identifier as
\* absent: no exception of a lookup leaves the call, and only the
\* successful lookups have added a record.
C12_LookupFailureIsAbsence ==
    /\ resolve.exc \notin LookupExceptions
    /\ Len(resolve.records)
          = Cardinality({k \in 1..Len(resolve.replies) : ~NonSuccess(resolve.replies[k])})

\* the synchronous call is asked to fetch inside a running event loop
RefusedCase(r) == r.mode = "sync" /\ r.fetch_missing /\ r.loop

\* C13: the synchronous get_compounds_by_cids asked to fetch while an event
\* loop is running raises RuntimeError at once, having loaded nothing,
\* called nothing and written nothing; no other call is refused: not the
\* synchronous one that does not fetch, not the asynchronous one.
C13_RefusedInRunningLoop ==
    /\ [](resolve.pc # "idle" =>
            /\ RefusedCase(resolve) =>
                  /\ resolve.pc = "raised" /\ resolve.exc = "RuntimeError"
                  /\ ~resolve.loaded /\ resolve.df = <<>>
                  /\ resolve.calls = <<>>
            /\ ~RefusedCase(resolve) => resolve.exc # "RuntimeError")
    /\ [][RefusedCase(resolve') => store' = store]_vars

\* C13 happens: the refused call was to reload a cache copy that differs
\* from the packaged copy and to fetch an identifier the table lacks.
C13_Witness ==
    /\ RefusedCase(resolve)
    /\ resolve.pc = "raised"
    /\ resolve.force_reload
    /\ store.packaged.exists /\ store.cache # store.packaged
    /\ resolve.cids = <<S(<<"8">>)>>

\* a call that has gone through CompoundDb.load
Loads(r) ==
    \/ r.mode = "load"
    \/ r.mode \in {"sync", "async"} /\ r.wanted # <<>> /\ ~RefusedCase(r)

\* C14: CompoundDb.load leaves a cache copy that exists alone unless
\* force_reload is set; with the cache copy missing or force_reload set,
\* and a packaged copy there, the cache copy becomes the packaged copy,
\* rows written back before included; with no packaged copy nothing is
\* copied, and load raises DataError when there is no cache copy then.
C14_LoadAndCacheCopy ==
    [][(resolve' # resolve /\ resolve'.calls = <<>> /\ Loads(resolve')) =>
          LET force == resolve'.force_reload
          IN  /\ store'.packaged = store.packaged
              /\ (store.cache.exists /\ ~force) => store'.cache = store.cache
              /\ ((~store.cache.exists \/ force) /\ store.packaged.exists)
                    => store'.cache = store.packaged
              /\ ~store.packaged.exists => store'.cache = store.cache
              /\ (~store.packaged.exists /\ ~store.cache.exists)
                    => resolve'.pc = "raised" /\ resolve'.exc = "DataError"]_vars

\* C14 happens: a load with force_reload, after a call that wrote fetched
\* rows back, has put the packaged copy in place of a cache copy that
\* differed from it.
C14_Witness ==
    /\ resolve.mode = "load" /\ resolve.pc = "returned"
    /\ resolve.force_reload /\ resolve.after_write
    /\ resolve.before.cache.exists
    /\ resolve.before.cache # resolve.before.packaged
    /\ store.cache = store.packaged

\* C15: a load that finds the table without some of the six required
\* columns raises DataError, its message listing exactly the columns that
\* are missing, and returns no table; a file that is absent or cannot be
\* read gives DataError too, never an empty table.
C15_SchemaOrDataError ==
    (Loads(resolve) /\ resolve.pc # "idle") =>
        LET file == store.cache
            lacking == REQUIRED_COLUMNS \ file.columns
            listed == {resolve.detail[i] : i \in DOMAIN resolve.detail}
        IN  /\ (file.exists /\ file.readable /\ lacking # {}) =>
                  /\ resolve.pc = "raised" /\ resolve.exc = "DataError"
                  /\ resolve.err = "missing columns"
                  /\ listed = lacking /\ Len(resolve.detail) = Cardinality(lacking)
                  /\ ~resolve.loaded /\ resolve.df = <<>> /\ resolve.result = <<>>
            /\ (~file.exists \/ ~file.readable) =>
                  /\ resolve.pc = "raised" /\ resolve.exc = "DataError"
                  /\ ~resolve.loaded /\ resolve.df = <<>> /\ resolve.result = <<>>

\* C15 happens: a load has raised over a table that has three of the six
\* columns.
C15_Witness ==
    /\ resolve.mode = "load" /\ resolve.pc = "raised"
    /\ store.cache.columns = {"PubChem CID", "Formula", "MW (-H2O)"}
    /\ resolve.detail = <<"Formula (-H2O)", "MW", "PubChem Name">>

\* C16: loading, or resolving against, a table that has the identifier,
\* name, formula and molar-mass columns and lacks the two anhydrous ones
\* succeeds, and every row of the frame has its Formula (-H2O) and
\* MW (-H2O).
C16_LegacyTableLoads ==
    (Loads(resolve) /\ resolve.pc # "idle" /\ store.cache.exists /\ store.cache.readable
       /\ store.cache.columns = LegacyColumns) =>
        /\ resolve.exc # "DataError"
        /\ resolve.loaded
        /\ \A i \in 1..Len(resolve.df) :
              resolve.df[i].formula0.k = "str" /\ resolve.df[i].mw0.k = "float"

\* C17: whoever reads a file while a writer persists a new version of it
\* finds the whole previous contents or the whole new contents, never an
\* empty, truncated or partly written file.
C17_ReaderSeesWholeFile ==
    io.seen # NotRead => io.seen \in {io.old, WholeFile(io.new)}

\* no two rows of a table of CompoundDb have the same normalized identifier
UniqueRows(rows) ==
    \A i, j \in 1..Len(rows) :
        i < j => normalize_cid(rows[i].cid) # normalize_cid(rows[j].cid)

\* C18: every canonical table the program writes has one row for each
\* normalized identifier: the table build_compound_db returns, and the
\* table a resolve call with fetch_missing and update_cache has written to
\* the cache, whatever was fetched and whatever the table held before.
C18_UniqueIdentifier ==
    /\ arg.fn = "build_compound_db" =>
          \A i, j \in 1..Len(out.table) :
              i < j => normalize_cid(S(out.table[i].cid)) # normalize_cid(S(out.table[j].cid))
    /\ resolve.wrote =>
          /\ resolve.fetch_missing /\ resolve.update_cache
          /\ UniqueRows(store.cache.rows)

\* C18 happens: build_compound_db was given two ok records of one CID,
\* written differently, and a third of another CID.
C18_Witness ==
    /\ arg.fn = "build_compound_db"
    /\ Len(arg.df_raw) = 2
    /\ \A i \in 1..2 : IsOk(arg.df_raw[i])
    /\ arg.df_raw[1].cid # arg.df_raw[2].cid
    /\ Len(out.table) = 1


InSeq(x, s) == \E i \in 1..Len(s) : s[i] = x

\* some requirement of the input has positive yield and positive excess
SomePositiveRequirement(o) ==
    \E i \in 1..Len(o.required_elements) :
        /\ o.required_elements[i].req.reference_yield > 0
        /\ o.required_elements[i].req.excess_factor > 0

Infeasible(o) ==
    /\ o.rows # <<>>
    /\ \A x \in [1..Len(o.compounds) -> o.lower_bound..MaxDose] :
          ~Solves(o.a_eq, [i \in 1..Len(o.rows) |-> o.rows[i].required_mol], x)

\* C20: every result optimize_medium returns has diagnostics exactly when
\* success is false, and a result with success false has no compound dose
\* and no element match. A system that cannot be solved comes back as such
\* a result: the call never raises OptimizationError.
C20_FailureIsReturnedWithDiagnostics ==
    /\ opt.pc = "returned" =>
          /\ opt.result.diagnostics.present <=> ~opt.result.success
          /\ ~opt.result.success =>
                opt.result.compound_doses = <<>> /\ opt.result.element_matches = <<>>
    /\ opt.exc # "OptimizationError"
    /\ (InSeq("solve", opt.steps) /\ Infeasible(opt)) =>
          opt.pc = "returned" /\ ~opt.result.success

\* the solver was called on a system no quantities satisfy, one of whose
\* elements no compound has, and the call returned
C20_Witness ==
    /\ opt.pc = "returned"
    /\ InSeq("solve", opt.steps)
    /\ Infeasible(opt)
    /\ opt.result.diagnostics.missing # <<>>
    /\ ~opt.result.success

\* the solver was called and the call returned a failure
SolverFailed(o) == o.pc = "returned" /\ InSeq("solve", o.steps) /\ ~o.result.success

\* the requirements of the input that count, in order
AppliedElements(o) ==
    LET Applied(e) == e.req.reference_yield > 0 /\ e.req.excess_factor > 0
        kept == SelectSeq(o.required_elements, Applied)
    IN  [i \in 1..Len(kept) |-> kept[i].element]

\* no resolved compound has an atom of the element in its anhydrous formula
InNoCompound(o, element) ==
    \A j \in 1..Len(o.compounds) :
        elemental_counts(PyStr(o.compounds[j].formula0), element) = 0

\* C21: when the solver fails, the diagnostics state the number of element
\* constraints applied and name exactly the required elements whose atom
\* count is zero in every resolved compound; when there is none, they state
\* instead that all required elements were found but the constraints could
\* not be satisfied.
C21_DiagnosticsNameMissingElements ==
    SolverFailed(opt) =>
        LET d == opt.result.diagnostics
            applied == AppliedElements(opt)
            named == {d.missing[k] : k \in 1..Len(d.missing)}
        IN  /\ d.present
            /\ d.constraints = Len(applied)
            /\ named = {applied[i] : i \in {k \in 1..Len(applied) : InNoCompound(opt, applied[k])}}
            /\ d.all_found <=> named = {}

\* the solver failed with two compounds and two constraints, of which one
\* element is in no compound and the other in the second compound only
C21_Witness ==
    /\ SolverFailed(opt)
    /\ Len(opt.compounds) = 2
    /\ opt.result.diagnostics.constraints = 2
    /\ Len(opt.result.diagnostics.missing) = 1
    /\ \E i \in 1..2 : opt.a_eq[i][1] = 0 /\ opt.a_eq[i][2] > 0

\* the call returned a success
Succeeded(o) == o.pc = "returned" /\ o.result.success

\* the mass of compound j is known and strictly positive
PositiveMass(o, j) == o.compounds[j].mw.k = "float" /\ o.x[j] * o.compounds[j].mw.n > 0

\* the dose of compound j
DoseOf(o, j) ==
    [cid |-> PyStr(o.compounds[j].cid), mass |-> o.x[j] * o.compounds[j].mw.n,
     mol |-> o.x[j]]

\* C22: on success compound_doses holds exactly the resolved compounds
\* whose mass solution[i] * MW[i] is known and strictly positive, each with
\* that mass and mol_per_l = solution[i], the largest mass first; a
\* compound of zero, negative or unknown mass is not in it.
C22_DosesPositiveSorted ==
    Succeeded(opt) =>
        LET doses == opt.result.compound_doses
            dosed == {j \in 1..Len(opt.compounds) : PositiveMass(opt, j)}
        IN  /\ Len(doses) = Cardinality(dosed)
            /\ \A j \in dosed : \E k \in 1..Len(doses) : doses[k] = DoseOf(opt, j)
            /\ \A k \in 1..Len(doses) : \E j \in dosed : doses[k] = DoseOf(opt, j)
            /\ \A k \in 1..Len(doses) : doses[k].mass > 0
            /\ \A k \in 1..(Len(doses) - 1) : doses[k].mass >= doses[k + 1].mass

\* a success with two doses, that of the second compound first
C22_Witness ==
    /\ Succeeded(opt)
    /\ Len(opt.compounds) = 2
    /\ Len(opt.result.compound_doses) = 2
    /\ opt.result.compound_doses[1] = DoseOf(opt, 2)
    /\ opt.result.compound_doses[1].mass > opt.result.compound_doses[2].mass

RECURSIVE SumCounts(_, _)
\* the atoms of the element among the tokens: a token without digits is 1
SumCounts(tokens, element) ==
    IF tokens = <<>> THEN 0
    ELSE (IF Head(tokens).element # element THEN 0
          ELSE IF Head(tokens).count_str = <<>> THEN 1
          ELSE StrToInt(Head(tokens).count_str))
         + SumCounts(Tail(tokens), element)

\* the number of atoms of the element in the formula
AtomCount(formula, element) == SumCounts(FormulaTokens(formula), element)

\* the requirements of the input that count, in order
AppliedRequirements(o) ==
    LET Applied(e) == e.req.reference_yield > 0 /\ e.req.excess_factor > 0
    IN  SelectSeq(o.required_elements, Applied)

\* C23: the system has exactly one equality constraint for each requirement
\* of positive yield and positive excess factor, in input order; its
\* right-hand side is (max_dry_biomass / yield) * excess_factor /
\* molar_mass(element), its coefficients are the atom counts of the element
\* in the anhydrous formulas of the compounds. A requirement that does not
\* count gives no constraint and no element match.
C23_OneConstraintPerRequirement ==
    (opt.pc = "solve" \/ InSeq("solve", opt.steps)) =>
        LET applied == AppliedRequirements(opt)
        IN  /\ Len(opt.rows) = Len(applied)
            /\ Len(opt.a_eq) = Len(applied)
            /\ \A i \in 1..Len(applied) :
                  /\ opt.rows[i].element = applied[i].element
                  /\ opt.rows[i].required_mol.den # 0
                  /\ opt.rows[i].required_mol.num
                        * (applied[i].req.reference_yield * molar_mass(applied[i].element))
                     = opt.rows[i].required_mol.den
                        * (opt.max_dry_biomass * applied[i].req.excess_factor)
                  /\ Len(opt.a_eq[i]) = Len(opt.compounds)
                  /\ \A j \in 1..Len(opt.compounds) :
                        opt.a_eq[i][j] =
                            AtomCount(PyStr(opt.compounds[j].formula0), applied[i].element)
            /\ Succeeded(opt) =>
                  /\ Len(opt.result.element_matches) = Len(applied)
                  /\ \A i \in 1..Len(applied) :
                        opt.result.element_matches[i].element = applied[i].element

\* the first row of the frame that has the key and no lower score than any
\* row of the key
EarliestBest(all, i) ==
    /\ \A j \in 1..Len(all) : QKey(all[j]) = QKey(all[i]) => ScoreRow(all[j]) <= ScoreRow(all[i])
    /\ \A j \in 1..(i - 1) : QKey(all[j]) = QKey(all[i]) => ScoreRow(all[j]) < ScoreRow(all[i])

\* C24: of the records of one normalized query that have the same score,
\* merge_cache keeps the one that comes first in the cached rows followed by
\* the new rows, so a cached record wins over a new one of the same score
\* (best_per_cid breaks its ties by the same sort).
C24_EarliestWinsTies ==
    out.stage = 1 =>
        \A k \in 1..Len(out.df) :
            \A i \in 1..Len(out.all) :
                (QKey(out.all[i]) = QKey(out.df[k]) /\ EarliestBest(out.all, i))
                    => out.df[k] = out.all[i]

\* the cell holds a value: it is there, not null, and not blank
HasValue(c) == c.k \notin {"absent", "none", "nan"} /\ Strip(PyStr(c)) # <<>>

\* the weights of the scored fields the row has
PresentWeights(row) ==
    (IF IsOk(row) THEN 10000 ELSE 0)
    + (IF HasValue(row.cid) THEN 2000 ELSE 0)
    + (IF HasValue(row.name) THEN 400 ELSE 0)
    + (IF HasValue(row.formula) THEN 400 ELSE 0)
    + (IF HasValue(row.mw) THEN 400 ELSE 0)
    + (IF HasValue(row.smiles) THEN 50 ELSE 0)

\* the row with one more scored field: an identifier, a name, a formula,
\* a molar mass or a structure string it did not have
WithOneMore(row) ==
    {[row EXCEPT !.cid = S(<<"7">>)] : x \in {y \in {1} : ~HasValue(row.cid)}}
    \cup {[row EXCEPT !.name = S(<<"a">>)] : x \in {y \in {1} : ~HasValue(row.name)}}
    \cup {[row EXCEPT !.formula = S(<<"N", "2">>)] : x \in {y \in {1} : ~HasValue(row.formula)}}
    \cup {[row EXCEPT !.mw = F(<<"2", "8", ".", "0">>)] : x \in {y \in {1} : ~HasValue(row.mw)}}
    \cup {[row EXCEPT !.smiles = S(<<"N">>)] : x \in {y \in {1} : ~HasValue(row.smiles)}}
    \cup {[row EXCEPT !.status = S(<<"ok">>)] : x \in {y \in {1} : ~IsOk(row)}}

\* C25: the score of every row merge_cache scores is the sum of the weights
\* 10000, 2000, 400, 400, 400 and 50 of the scored fields the row has
\* (status ok, identifier, name, formula, molar mass, structure string), and
\* giving the row one scored field it did not have strictly raises the score.
C25_ScoreIsSumOfPresentWeights ==
    out.stage = 1 =>
        \A i \in 1..Len(out.all) :
            /\ ScoreRow(out.all[i]) = PresentWeights(out.all[i])
            /\ \A more \in WithOneMore(out.all[i]) :
                  ScoreRow(more) > ScoreRow(out.all[i])

\* the water count the formula was written with: n, or 1 when n is omitted
WrittenCount(a) == IF a.n = <<>> THEN 1 ELSE StrToInt(a.n)

\* C26: split_hydrate_formula returns (f, 0) for a formula f without a
\* separator, and (base, n) for base + separator + n + H2O with any of the
\* three separators, blanks around n or none, and H2O in any letter case,
\* an omitted n counting as 1.
C26_SplitHydrate ==
    (arg.fn = "split_hydrate_formula" /\ out.stage = 1) =>
        /\ ~arg.hydrate => (out.base = arg.formula /\ out.water = 0)
        /\ arg.hydrate => (out.base = arg.base /\ out.water = WrittenCount(arg))

\* What the row is to become: the base of its own Formula where its
\* Formula (-H2O) is empty, MW less the water of its own Formula where its
\* MW (-H2O) is missing
Completed(row) ==
    LET own == split_hydrate_formula(PyStr(row.formula))
        mw == ToNumeric(row.mw)
    IN  [formula0 |-> IF Strip(PyStr(row.formula0)) = <<>> THEN S(own.base)
                      ELSE S(PyStr(row.formula0)),
         mw0 |-> IF ToNumeric(row.mw0).k # "nan" THEN ToNumeric(row.mw0)
                 ELSE IF mw.k = "nan" THEN NaN
                 ELSE Num(mw.n - own.water * H2OMass)]

\* C27: ensure_db_schema gives each row whose Formula (-H2O) is empty the
\* base split_hydrate_formula returns for the Formula of that row, and each
\* row whose MW (-H2O) is missing MW - waterCount * molar_mass_h2o() with the
\* water count of that row; rows that have both are left as they are,
\* whatever rows come before them (here: the table optimize_medium resolved
\* and what ensure_db_schema made of it).
C27_EnsureSchemaRowByRow ==
    (opt.pc \in {"requirements", "solve", "returned"} /\ opt.compounds # <<>>) =>
        /\ Len(opt.compounds) = Len(resolve.result)
        /\ \A i \in 1..Len(opt.compounds) :
              /\ opt.compounds[i].formula0 = Completed(resolve.result[i]).formula0
              /\ opt.compounds[i].mw0 = Completed(resolve.result[i]).mw0

\* the requested identifiers that have no row in the table, as requested
WithoutRow(df, wanted) ==
    LET NoRow(w) == \A i \in 1..Len(df) : df[i].cid.v # w
    IN  SelectSeq(wanted, NoRow)

\* C28: a resolve call with fetch_missing=True calls fetch_by_cid once for
\* each requested identifier that has no row in the table it loaded, one
\* call after the other in request order, and for no identifier that has a
\* row, whatever table it loaded, a table without rows included.
C28_OneLookupPerMissingIdentifier ==
    /\ resolve.pc = "fetching" =>
          resolve.calls \o resolve.missing = WithoutRow(resolve.df, resolve.wanted)
    /\ (resolve.pc = "returned" /\ resolve.fetch_missing /\ resolve.loaded
            /\ resolve.calls = <<>>) =>
          WithoutRow(resolve.df, resolve.wanted) = <<>>

\* the statuses of an outcome that is a failure
FailureStatuses == {S(<<"failed-no-props">>), S(<<"failed-empty-props">>)}

\* What the step of runner i is held to: from the queue a blank name ends
\* as skipped-empty and any other name enters the identifier call; the
\* identifier call is followed by the properties call; the properties call
\* is followed by an outcome, ok or a failure that carries the identifier
\* resolved before.
OutcomeStep(i) ==
    /\ (task[i].pc = "queued" /\ task'[i].pc # "queued") =>
          IF Strip(names[i]) = <<>>
          THEN task'[i].pc = "done" /\ task'[i].rec = SkippedRec
          ELSE task'[i].pc = "cids"
    /\ (task[i].pc = "cids" /\ task'[i].pc # "cids") => task'[i].pc = "props"
    /\ (task[i].pc = "props" /\ task'[i].pc # "props") =>
          /\ task'[i].pc = "done"
          /\ task'[i].rec.qn = S(Strip(names[i]))
          /\ \/ task'[i].rec.status = S(<<"ok">>)
             \/ /\ task'[i].rec.status \in FailureStatuses
                /\ task'[i].rec.cid = task[i].cid

\* C29: for a name that is not blank _fetch_record_for_name makes the
\* identifier call and then the properties call, whatever the first gave;
\* the outcome is ok when the properties call gave a property list that is
\* not empty (RecordFromProps), and otherwise a failure that carries the
\* identifier of the first call, None if there was none. A blank name gives
\* skipped-empty without a remote call.
C29_BothCallsThenOutcome ==
    /\ [][\A i \in Tasks : OutcomeStep(i)]_vars
    /\ [](\A b \in Bodies : \A cid \in {None, S(<<"7">>)} :
            ~BodyRaises(b) =>
                /\ RecordFromProps(<<"a">>, cid, b).status = S(<<"ok">>) <=> b.props # <<>>
                /\ b.props = <<>> => RecordFromProps(<<"a">>, cid, b).cid = cid)

\* The identifier a cached outcome carries, as text: none for null, a
\* whole number without its ".0"
IdentifierText(c) ==
    IF c.k \in {"absent", "none", "nan"} THEN <<>>
    ELSE RemoveSuffix(Strip(PyStr(c)), DotZero)

\* The outcomes of the merged cache that are ok and carry an identifier
OkOutcomes ==
    {i \in 1..Len(cacheFile.recs) :
        /\ IsOk(cacheFile.recs[i])
        /\ IdentifierText(cacheFile.recs[i].cid) # <<>>}

\* C30: after a run every row of the built table has the identifier of an
\* ok outcome of the merged cache that carries an identifier, and every
\* identifier of such an outcome has exactly one row in the table.
C30_TableRowsAreOkOutcomes ==
    (run.pc = "idle" /\ run.n > 0 /\ parquet.exists) =>
        /\ \A r \in 1..Len(parquet.rows) :
              \E i \in OkOutcomes :
                  IdentifierText(cacheFile.recs[i].cid) = parquet.rows[r].cid
        /\ \A i \in OkOutcomes :
              Cardinality({r \in 1..Len(parquet.rows) :
                  parquet.rows[r].cid = IdentifierText(cacheFile.recs[i].cid)}) = 1

\* A step of a resolve call that found the cache copy and was not told to
\* reload
ResolveStepOnCache ==
    /\ resolve'.mode \in {"sync", "async"}
    /\ ~resolve'.force_reload
    /\ store.cache.exists

\* The step that ends the last lookup of a call, no lookup having raised
LastLookupReturns ==
    /\ resolve.pc = "fetching"
    /\ resolve'.pc # "fetching"
    /\ resolve'.missing = <<>>
    /\ ~(resolve'.pc = "raised" /\ resolve'.exc # "ValueError")

\* C31: with the cache copy present and force_reload false a resolve call
\* changes the stored table only in the step that ends its last lookup,
\* and only when fetch_missing and update_cache are true and a lookup gave
\* a record; in that step it writes the merged table, and in no other.
C31_WritesOnlyFetchedUpdate ==
    [][ResolveStepOnCache =>
          /\ (store' # store \/ resolve'.wrote) =>
                /\ LastLookupReturns
                /\ resolve.fetch_missing /\ resolve.update_cache
                /\ resolve'.records # <<>>
          /\ (LastLookupReturns /\ resolve.update_cache /\ resolve'.records # <<>>) =>
                /\ resolve'.wrote
                /\ store'.cache = TableFile(resolve'.df)
                /\ store'.packaged = store.packaged]_vars

\* A call on the cache copy alone wrote the table after two lookups, one
\* of which gave nothing.
C31_Witness ==
    /\ resolve.wrote
    /\ resolve.mode \in {"sync", "async"}
    /\ ~resolve.force_reload
    /\ store.packaged = NoTable
    /\ Len(resolve.calls) = 2
    /\ Len(resolve.records) = 1

\* The later call of a session returned, and the first call had returned
LaterReturned ==
    /\ resolve.earlier # <<>>
    /\ resolve.pc = "returned"
    /\ resolve.earlier[1].pc = "returned"

\* The first call looked x up, x being missing from the table, and got a
\* record for it
FetchedFor(first, x) ==
    /\ InSeq(x, first.calls)
    /\ \E k \in 1..Len(first.records) : first.records[k].cid.v = x

\* The identifiers of a table file as load normalises them
IdentifiersOf(file) == {normalize_cid(file.rows[i].cid) : i \in 1..Len(file.rows)}

ReturnsRowFor(r, x) == \E i \in 1..Len(r.result) : r.result[i].cid.v = x

\* C32: a later resolve([X]) with fetch_missing false makes no lookup; it
\* returns a row for X when the first call fetched a record for the
\* missing X with update_cache true, and for every X the table held before
\* the first call; it returns no row for X when the first call fetched
\* the record with update_cache false.
C32_FetchedRowsAreKept ==
    (LaterReturned /\ ~resolve.fetch_missing) =>
        LET first == resolve.earlier[1]
            x == resolve.wanted[1]
        IN  /\ resolve.calls = <<>>
            /\ (first.update_cache /\ FetchedFor(first, x)) => ReturnsRowFor(resolve, x)
            /\ x \in IdentifiersOf(first.before.cache) => ReturnsRowFor(resolve, x)
            /\ (~first.update_cache /\ FetchedFor(first, x)) => ~ReturnsRowFor(resolve, x)

\* The first call fetched 8 next to a lookup that gave nothing and wrote
\* the table; the later call, offline, returned the row of 8.
C32_Witness ==
    /\ LaterReturned /\ ~resolve.fetch_missing
    /\ resolve.earlier[1].update_cache
    /\ resolve.wanted = <<<<"8">>>>
    /\ FetchedFor(resolve.earlier[1], <<"8">>)
    /\ Len(resolve.earlier[1].calls) = 2
    /\ ReturnsRowFor(resolve, <<"8">>)

\* The first call fetched 8 and did not write; the later call returned
\* nothing for it.
C32_WitnessNoUpdate ==
    /\ LaterReturned /\ ~resolve.fetch_missing
    /\ ~resolve.earlier[1].update_cache
    /\ resolve.wanted = <<<<"8">>>>
    /\ FetchedFor(resolve.earlier[1], <<"8">>)
    /\ resolve.result = <<>>

\* The lookups of a call that gave nothing: fetch_by_cid returned None
FailedLookups(r) ==
    {r.calls[k] : k \in {j \in 1..Len(r.calls) :
                            fetch_by_cid(r.calls[j], r.replies[j]).kind = "none"}}

\* C33: an identifier whose lookup gave nothing in the first call is not
\* looked up by a later call.
C33_FailedLookupNotRepeated ==
    resolve.earlier # <<>> =>
        \A k \in 1..Len(resolve.calls) :
            resolve.calls[k] \notin FailedLookups(resolve.earlier[1])

\* C34: elemental_counts returns a count for the requested elements and
\* for no other symbol; the count of an element is the sum of the counts
\* of its tokens in the formula, a token without digits counting 1, and 0
\* when the element does not occur.
C34_CountsAreAtomSums ==
    (arg.fn = "elemental_counts" /\ out.stage = 1) =>
        /\ DOMAIN out.counts = {arg.elements[i] : i \in 1..Len(arg.elements)}
        /\ \A element \in DOMAIN out.counts :
              out.counts[element] = AtomCount(arg.formula, element)

\* C35: for every formula the builder's split_hydrate_formula returns the
\* base and the water count that the runtime split_hydrate_formula
\* returns, and for a hydrate a water count greater than 0.
C35_BuilderSplitsAsRuntime ==
    (arg.fn = "builder.split_hydrate_formula" /\ out.stage = 1) =>
        /\ out.base = split_hydrate_formula(arg.formula).base
        /\ out.water = split_hydrate_formula(arg.formula).water
        /\ arg.hydrate => out.water > 0

\* C36: a remote call sleeps only when a further request follows: it is
\* never asleep after its max_retries-th request, and it sleeps at most
\* max_retries - 1 times.
C36_NoSleepAfterLastAttempt ==
    /\ rc.pc = "sleep" => rc.attempt < rc.max
    /\ rc.max > 0 => Len(rc.sleeps) <= rc.max - 1

\* the identifiers of the rows of a table file
TableIdentifiers(file) == {file.rows[i].cid : i \in 1..Len(file.rows)}

\* C37: every identifier the table file holds before a step of the
\* pipeline is in the table file after it, whatever the cache file held.
C37_TableKeepsIdentifiers ==
    [][TableIdentifiers(parquet) \subseteq TableIdentifiers(parquet')]_vars

\* C38: once its compounds are resolved optimize_medium does not raise: it
\* goes on to a result, also when a required element has a symbol
\* molar_mass cannot parse.
C38_ReturnsResultOnceResolved ==
    (opt.steps # <<>> /\ opt.compounds # <<>>) => opt.pc # "raised"

\* done, the processed counter: the runners that returned a record
Processed == Cardinality({i \in Tasks : task[i].pc = "done"})

\* The batch ended: the frame was returned or an exception left it
BatchEnded == batch \in {"returned", "raised"}

\* C39: with every request answered, a batch ends with the frame returned,
\* an outcome in the results for every name and the processed counter at
\* the number of names; no remote call makes more than max_retries
\* requests.
C39_BatchTerminates ==
    /\ [](\A i \in InFlight : task[i].call.attempt <= BatchConfig.max_retries)
    /\ <>(/\ batch = "returned"
          /\ Len(results) = Len(names)
          /\ Processed = Len(names))
=============================================================================
